---- MODULE Spec2Model ----
(***************************************************************************)
(* State-machine model of the moltbook feed curation stores:               *)
(*   FeedCursor          (src/src/moltbook/cursor.py)                      *)
(*   ConversationTracker (src/src/moltbook/tracker.py)                     *)
(*   FeedFilter          (src/src/moltbook/filter.py)                      *)
(*   FeedRules           (src/src/moltbook/rules.py)                       *)
(*   PartnerMonitor      (src/src/moltbook/partners.py)                    *)
(* Every store keeps a JSON document in memory and writes it to its file   *)
(* at the end of each mutating method.  Each store has its own             *)
(* specifications (SpecCursor, SpecTracker, SpecFilter, SpecRules,         *)
(* SpecPartners and their variants); the variables of the other stores     *)
(* stay at their initial value in them.  SpecLoad constructs the stores    *)
(* on missing and corrupt files.                                           *)
(***************************************************************************)
EXTENDS Integers, Sequences, FiniteSets, TLC

VARIABLES
    now,              \* datetime.now(timezone.utc), as a tick count
    cursor_sources,   \* FeedCursor._data["sources"]: name -> {seen_ids, last_checked}
    cursor_file,      \* content of the cursor file, "sources" part
    cursor_last,      \* history: the last FeedCursor call, its arguments and result
    cursor_newest,    \* history: per source, the identifiers in insertion order
    tracker_watched,  \* ConversationTracker._state["watched"]: post -> entry
    tracker_keys,     \* key order of the watched dict (insertion order)
    tracker_file,     \* content of the tracker file, "watched" part
    tracker_last,     \* history: the last ConversationTracker call and its result
    filter_blocked,   \* FeedFilter._data["blocked"], a list
    filter_reasons,   \* FeedFilter._data["reasons"], a dict
    filter_file,      \* content of the blocklist file
    filter_last,      \* history: the last FeedFilter call and its result
    partners_state,   \* PartnerMonitor._state["partners"]: name -> entry
    partners_keys,    \* the insertion order of the partners dict
    partners_file,    \* the partners file
    partners_last,    \* history: the last PartnerMonitor call and its result
    partners_reported,\* history: the identifiers reported for a partner since it was added
    feed_comments,    \* the comment tree the feed source delivered for filtering
    feed_posts,       \* the posts the feed source delivered for FeedRules.apply
    rules_rules,      \* FeedRules._data["rules"], a list
    rules_file,       \* content of the rules file, "rules" part
    rules_last,       \* history: the last FeedRules call and its result
    loaded,           \* history: the last construction of a store and the file it met
    keyless,          \* the stores whose document in memory is {} (no top-level key)
    peer_sources,     \* _data["sources"] of a second FeedCursor on the same file
    peer_last,        \* history: the last call on the second FeedCursor
    session_last      \* history: the last Session call and what it returned, the
                      \* comments made through the session (made) and those of
                      \* them whose post was not unwatched since (known)

cursorVars  == <<cursor_sources, cursor_file, cursor_last>>
cursorHist  == <<cursor_newest>>
trackerVars == <<tracker_watched, tracker_keys, tracker_file, tracker_last>>
filterVars  == <<filter_blocked, filter_reasons, filter_file, filter_last>>
feedVars    == <<feed_comments, feed_posts>>
partnerVars == <<partners_state, partners_keys, partners_file, partners_last>>
partnerHist == <<partners_reported>>
rulesVars   == <<rules_rules, rules_file, rules_last>>
loadVars    == <<loaded, keyless>>
peerVars    == <<peer_sources, peer_last>>
sessionVars == <<session_last>>
vars == <<now, cursorVars, cursorHist, trackerVars, filterVars, rulesVars, feedVars,
          partnerVars, partnerHist, loadVars, peerVars, sessionVars>>

(***************************************************************************)
(* Bounds of the model.                                                    *)
(***************************************************************************)
\* Stands for _MAX_SEEN_PER_SOURCE (cursor.py line 8, 500 in the program),
\* scaled down so that the cap is reached.
MAX_SEEN_PER_SOURCE == 2
\* Longest list of posts handed to one FeedCursor call.
MaxBatch == 2
\* Last tick of the clock.
MaxNow == 1
\* Most comments in one fetched comment tree; as many comment identifiers exist.
MaxTree == 2
\* Most comments in a comment tree handed to a filter.
MaxComments == 3
\* Most rules FeedRules holds at a time.
MaxRules == 2
\* Most posts in a feed handed to FeedRules.apply.
MaxPosts == 2
\* Most posts in a list handed to FeedFilter.filter_posts.
MaxFiltered == 3
\* Most posts in a feed handed to PartnerMonitor.check.
MaxFeed == 2

(***************************************************************************)
(* Python values.                                                          *)
(***************************************************************************)
\* Python's None; as an identifier or a name it is falsy.
None == "<None>"

Range(s) == {s[i] : i \in 1..Len(s)}

\* list(a_set): the iteration order of a set of strings follows the
\* per-process string hash, so every ordering is a possible outcome.
ListsOfSet(S) == {l \in [1..Cardinality(S) -> S] : Range(l) = S}

\* lst[-n:]
LastN(lst, n) == IF Len(lst) > n THEN SubSeq(lst, Len(lst) - n + 1, Len(lst)) ELSE lst

\* [x for x in lst if Keep(x)]
RECURSIVE SelectList(_, _)
SelectList(lst, keep) ==
    IF lst = <<>> THEN <<>>
    ELSE (IF Head(lst) \in keep THEN <<Head(lst)>> ELSE <<>>) \o SelectList(Tail(lst), keep)

\* Sequences over S of length at most n.
SeqUpTo(S, n) == UNION {[1..k -> S] : k \in 0..n}

(***************************************************************************)
(* FeedCursor                                                              *)
(***************************************************************************)
PostIds == {"p" \o ToString(i) : i \in 1..(MAX_SEEN_PER_SOURCE + 1)}

\* An item of a posts list: a post dict (its "id" may be missing) or a bare
\* identifier.
CursorItems ==
    {[isdict |-> TRUE, id |-> i] : i \in PostIds \cup {None}}
        \cup {[isdict |-> FALSE, id |-> "p1"]}

\* The posts arguments: lists of posts with identifiers up to MaxBatch long,
\* and short lists holding an item without identifier or a bare identifier.
CursorPostLists ==
    SeqUpTo({p \in CursorItems : p.isdict /\ p.id # None}, MaxBatch)
        \cup {<<[isdict |-> FALSE, id |-> "p1"]>>,
              <<[isdict |-> TRUE, id |-> None]>>,
              <<[isdict |-> TRUE, id |-> None], [isdict |-> TRUE, id |-> "p1"]>>}

\* The posts arguments of the two-source specification: at most one item.
SinglePostLists == SeqUpTo(CursorItems, 1)

\* The source argument of the FeedCursor methods.
SourceArgs == {"hot", None}

EmptySource == [seen_ids |-> <<>>, last_checked |-> None]

\* source = source or "default"
SourceKey(source) == IF source = None THEN "default" ELSE source

\* FeedCursor._source: the sources dict with the entry created when missing.
_source(sources, name) ==
    IF name \in DOMAIN sources THEN sources
    ELSE [n \in DOMAIN sources \cup {name} |->
             IF n = name THEN EmptySource ELSE sources[n]]

\* pid = p.get("id") if isinstance(p, dict) else p; kept when truthy.
MarkedIds(posts) == {posts[i].id : i \in 1..Len(posts)} \ {None}

\* Mutant of CapList: the cap is not applied.
CapListOff(seen_list) == seen_list

\* if len(seen_list) > _MAX_SEEN_PER_SOURCE: seen_list = seen_list[-_MAX_SEEN_PER_SOURCE:]
CapList(seen_list) ==
    IF Len(seen_list) > MAX_SEEN_PER_SOURCE
    THEN LastN(seen_list, MAX_SEEN_PER_SOURCE)
    ELSE seen_list

\* The lists mark_seen may store: seen = set(seen_ids) plus the marked ids,
\* seen_list = list(seen), capped.
SeenListsAfter(seen_ids, posts) ==
    {CapList(l) : l \in ListsOfSet(Range(seen_ids) \cup MarkedIds(posts))}

\* Mutant of WriteSource: the entry is stored under every source name.
WriteSourceAll(sources, name, entry) == [n \in DOMAIN sources |-> entry]

\* sources[name] = entry, all other entries as they are.
WriteSource(sources, name, entry) == [sources EXCEPT ![name] = entry]

\* The order markSeen is specified to keep (spec 4.1): identifiers not yet
\* present are appended in the order given, then the list is cut to its last
\* MAX_SEEN_PER_SOURCE entries.  History only; the program does not keep it.
RECURSIVE AppendNew(_, _)
AppendNew(lst, posts) ==
    IF posts = <<>> THEN lst
    ELSE LET pid == Head(posts).id
         IN  AppendNew(IF pid = None \/ pid \in Range(lst) THEN lst ELSE Append(lst, pid),
                       Tail(posts))

NewestAfter(lst, posts) == LastN(AppendNew(lst, posts), MAX_SEEN_PER_SOURCE)

\* History value of a source without one.
HistAt(h, name, dflt) == IF name \in DOMAIN h THEN h[name] ELSE dflt

HistSet(h, name, v) == [n \in DOMAIN h \cup {name} |-> IF n = name THEN v ELSE h[n]]

mark_seen(posts, source) ==
    LET name    == SourceKey(source)
        sources == _source(cursor_sources, name)
    IN  \E seen_list \in SeenListsAfter(sources[name].seen_ids, posts) :
          /\ cursor_sources' =
                 WriteSource(sources, name, [seen_ids |-> seen_list, last_checked |-> now])
          /\ cursor_file' = cursor_sources'
          /\ cursor_last' = [op |-> "mark_seen", source |-> source, posts |-> posts,
                             total |-> Cardinality(Range(sources[name].seen_ids)
                                                     \cup MarkedIds(posts))]

\* What unseen returns on the given sources: p.get("id") raises AttributeError
\* on an item that is no dict; otherwise the posts whose id is not in the set.
UnseenResult(sources, posts, source) ==
    LET name == SourceKey(source)
        seen == IF name \in DOMAIN sources THEN Range(sources[name].seen_ids) ELSE {}
    IN  IF \E i \in 1..Len(posts) : ~posts[i].isdict
        THEN [raised |-> TRUE, ret |-> <<>>]
        ELSE [raised |-> FALSE,
              ret |-> SelectList(posts, {p \in Range(posts) : p.id \notin seen})]

unseen(posts, source) ==
    LET name == SourceKey(source)
    IN  /\ cursor_sources' = _source(cursor_sources, name)
        /\ cursor_last' = [op |-> "unseen", source |-> source, posts |-> <<>>,
                           total |-> 0]
        /\ UNCHANGED cursor_file

catch_up(source) ==
    /\ cursor_sources' =
           IF source # None
           THEN LET sources == _source(cursor_sources, source)
                IN  [sources EXCEPT ![source].last_checked = now]
           ELSE [n \in DOMAIN cursor_sources |->
                    [cursor_sources[n] EXCEPT !.last_checked = now]]
    /\ cursor_file' = cursor_sources'
    /\ cursor_last' = [op |-> "catch_up", source |-> source, posts |-> <<>>,
                       total |-> 0]

\* catch_up called with posts: the method takes self and source only, so the
\* call raises TypeError before its body runs.
catch_up_posts(source, posts) ==
    /\ cursor_last' = [op |-> "catch_up_posts", source |-> source, posts |-> posts,
                       total |-> 0]
    /\ UNCHANGED <<cursor_sources, cursor_file>>

reset(source) ==
    /\ cursor_sources' =
           IF source # None
           THEN (IF source \in DOMAIN cursor_sources
                 THEN [cursor_sources EXCEPT ![source] = EmptySource]
                 ELSE cursor_sources)
           ELSE <<>>
    /\ cursor_file' = cursor_sources'
    /\ cursor_last' = [op |-> "reset", source |-> source, posts |-> <<>>,
                       total |-> 0]

\* History kept beside mark_seen: the specified order.
HistMarkSeen(posts, source) ==
    LET name == SourceKey(source)
    IN  cursor_newest' = HistSet(cursor_newest, name,
                                 NewestAfter(HistAt(cursor_newest, name, <<>>), posts))

\* History kept beside reset: the cleared sources start again.
HistReset(source) ==
    cursor_newest' = IF source # None
                     THEN [n \in DOMAIN cursor_newest |->
                              IF n = source THEN <<>> ELSE cursor_newest[n]]
                     ELSE <<>>

(***************************************************************************)
(* Comment trees                                                           *)
(***************************************************************************)
\* The forest of the nodes k.. whose parent is node p (0: top level).  Node i
\* has identifier ids[i], author auth[i] and parent par[i] < i.
RECURSIVE ForestFrom(_, _, _, _, _)
ForestFrom(par, ids, auth, p, k) ==
    IF k > Len(par) THEN <<>>
    ELSE (IF par[k] = p
          THEN <<[id |-> ids[k], author |-> auth[k],
                  parent_id |-> IF p = 0 THEN None ELSE ids[p],
                  replies |-> ForestFrom(par, ids, auth, k, k + 1)]>>
          ELSE <<>>) \o ForestFrom(par, ids, auth, p, k + 1)

\* All comment trees of at most n comments, the identifiers of a tree of k
\* comments being one of idseqs[k], the authors from authset.
Forests(idseqs, authset, n) ==
    UNION {{ForestFrom(par, ids, auth, 0, 1) :
               par \in {f \in [1..k -> 0..k] : \A i \in 1..k : f[i] < i},
               ids \in idseqs[k],
               auth \in [1..k -> authset]}
           : k \in 0..n}

\* The number of the identifier "c<n>".
IdNumber(cid) == CHOOSE n \in 1..(MaxTree + MaxComments) : cid = "c" \o ToString(n)

\* k distinct identifiers from idset, a later comment having the higher number.
AscendingSeqs(idset, k) ==
    {f \in [1..k -> idset] : \A i, j \in 1..k : i < j => IdNumber(f[i]) < IdNumber(f[j])}

(***************************************************************************)
(* ConversationTracker                                                     *)
(***************************************************************************)
CommentIds == {"c" \o ToString(i) : i \in 1..MaxTree}

\* The trees client.post may return; the tracker reads no author.
TrackerIdSeqs == [k \in 0..MaxTree |-> AscendingSeqs(CommentIds, k)]

TrackerForests == Forests(TrackerIdSeqs, {[kind |-> "str", name |-> "someone"]}, MaxTree)

\* client.post(post_id) raised.
FetchFailed ==
    [ok |-> FALSE, title |-> "", has_top |-> FALSE, top |-> <<>>,
     has_post |-> FALSE, nested |-> <<>>]

\* What client.post returns: {"post": {...}, "comments": [...]} or
\* {"post": {..., "comments": [...]}}.
Responses ==
    {FetchFailed}
        \cup {[ok |-> TRUE, title |-> "title", has_top |-> TRUE, top |-> f,
               has_post |-> FALSE, nested |-> <<>>] : f \in TrackerForests}
        \cup {[ok |-> TRUE, title |-> "title", has_top |-> FALSE, top |-> <<>>,
               has_post |-> TRUE, nested |-> f] : f \in TrackerForests}

\* ConversationTracker._collect_comment_ids
RECURSIVE _collect_comment_ids(_)
_collect_comment_ids(comments) ==
    IF comments = <<>> THEN <<>>
    ELSE LET c == Head(comments)
         IN  <<c.id>> \o _collect_comment_ids(c.replies)
                 \o _collect_comment_ids(Tail(comments))

\* Mutant of IsNewComment: own comments are not excluded.
IsNewCommentOwnIncluded(cid, seen_ids, my_comment_ids) == cid \notin seen_ids

\* cid not in seen_ids and cid not in my_comment_ids
IsNewComment(cid, seen_ids, my_comment_ids) ==
    cid \notin seen_ids /\ cid \notin my_comment_ids

\* ConversationTracker._find_new_comments
RECURSIVE _find_new_comments(_, _, _)
_find_new_comments(comments, seen_ids, my_comment_ids) ==
    IF comments = <<>> THEN <<>>
    ELSE LET c == Head(comments)
         IN  (IF IsNewComment(c.id, seen_ids, my_comment_ids) THEN <<c>> ELSE <<>>)
                 \o _find_new_comments(c.replies, seen_ids, my_comment_ids)
                 \o _find_new_comments(Tail(comments), seen_ids, my_comment_ids)

\* check_replies: comments = data.get("comments", post_data.get("comments", []))
CheckedComments(data) ==
    IF data.has_top THEN data.top ELSE IF data.has_post THEN data.nested ELSE <<>>

\* mark_all_seen: comments = data.get("comments", [])
MarkedComments(data) == IF data.has_top THEN data.top ELSE <<>>

\* Mutant of SeenAfterCheck: the fetched identifiers are not recorded.
SeenAfterCheckStale(all_ids, my_ids, seen_ids) == seen_ids \cup my_ids

\* set(all_ids) | my_ids, the set check_replies stores as seen_comment_ids.
SeenAfterCheck(all_ids, my_ids, seen_ids) == Range(all_ids) \cup my_ids

NewEntry == [my_comment_ids |-> <<>>, seen_comment_ids |-> <<>>]

\* Mutant of AppendOwn: the identifier is appended even when recorded.
AppendOwnAgain(my_comment_ids, my_comment_id) ==
    IF my_comment_id # None THEN Append(my_comment_ids, my_comment_id) ELSE my_comment_ids

\* if my_comment_id and my_comment_id not in entry["my_comment_ids"]: append
AppendOwn(my_comment_ids, my_comment_id) ==
    IF my_comment_id # None /\ my_comment_id \notin Range(my_comment_ids)
    THEN Append(my_comment_ids, my_comment_id)
    ELSE my_comment_ids

watch(post_id, my_comment_id) ==
    LET watched == IF post_id \in DOMAIN tracker_watched THEN tracker_watched
                   ELSE [q \in DOMAIN tracker_watched \cup {post_id} |->
                            IF q = post_id THEN NewEntry ELSE tracker_watched[q]]
        entry   == watched[post_id]
        mine    == AppendOwn(entry.my_comment_ids, my_comment_id)
    IN  /\ tracker_watched' = [watched EXCEPT ![post_id].my_comment_ids = mine]
        /\ tracker_keys' = IF post_id \in DOMAIN tracker_watched THEN tracker_keys
                           ELSE Append(tracker_keys, post_id)
        /\ tracker_file' = tracker_watched'
        /\ tracker_last' = [op |-> "watch", post |-> post_id, fetched |-> <<>>, ret |-> <<>>,
                            before |-> <<>>, repeated |-> {}]

unwatch(post_id) ==
    /\ tracker_watched' = [q \in DOMAIN tracker_watched \ {post_id} |-> tracker_watched[q]]
    /\ tracker_keys' = SelectList(tracker_keys, Range(tracker_keys) \ {post_id})
    /\ tracker_file' = tracker_watched'
    /\ tracker_last' = [op |-> "unwatch", post |-> post_id, fetched |-> <<>>, ret |-> <<>>,
                        before |-> <<>>, repeated |-> {}]

\* The result entries of check_replies for the watched posts keys, in order.
RECURSIVE CheckResults(_, _, _)
CheckResults(keys, watched, fetched) ==
    IF keys = <<>> THEN <<>>
    ELSE LET post_id == Head(keys)
             data    == fetched[post_id]
             entry   == watched[post_id]
             new_comments ==
                 _find_new_comments(CheckedComments(data), Range(entry.seen_comment_ids),
                                    Range(entry.my_comment_ids))
         IN  (IF data.ok /\ new_comments # <<>>
              THEN <<[post_id |-> post_id, post_title |-> data.title,
                      new_comments |-> new_comments]>>
              ELSE <<>>) \o CheckResults(Tail(keys), watched, fetched)

\* Mutant of SeenOnFailure: a failed fetch empties the list.
SeenOnFailureCleared(entry) == <<>>

\* except Exception: continue -- the entry is not touched.
SeenOnFailure(entry) == entry.seen_comment_ids

\* The seen_comment_ids lists check_replies may store for one post: a failed
\* fetch leaves the list; otherwise list(set(all_ids) | my_ids), in any order.
SeenListsAfterCheck(entry, data) ==
    IF ~data.ok THEN {SeenOnFailure(entry)}
    ELSE ListsOfSet(SeenAfterCheck(_collect_comment_ids(CheckedComments(data)),
                                   Range(entry.my_comment_ids),
                                   Range(entry.seen_comment_ids)))

\* History: the posts for which this check_replies is answered the very
\* response the check_replies just before it was answered.
RepeatedFetches(fetched) ==
    IF tracker_last.op # "check_replies" THEN {}
    ELSE {q \in DOMAIN fetched \cap DOMAIN tracker_last.fetched :
             fetched[q].ok /\ tracker_last.fetched[q] = fetched[q]}

\* check_replies, client.post answering fetched[post_id] for each watched post.
check_replies(fetched) ==
    \E seen \in [DOMAIN tracker_watched -> SeqUpTo(CommentIds, MaxTree)] :
        /\ \A q \in DOMAIN tracker_watched :
               seen[q] \in SeenListsAfterCheck(tracker_watched[q], fetched[q])
        /\ tracker_watched' = [q \in DOMAIN tracker_watched |->
                                  [tracker_watched[q] EXCEPT !.seen_comment_ids = seen[q]]]
        /\ tracker_file' = tracker_watched'
        /\ tracker_last' = [op |-> "check_replies", post |-> None, fetched |-> fetched,
                            ret |-> CheckResults(tracker_keys, tracker_watched, fetched),
                            before |-> tracker_watched,
                            repeated |-> RepeatedFetches(fetched)]
        /\ UNCHANGED tracker_keys

\* mark_all_seen, client.post answering data.
mark_all_seen(post_id, data) ==
    IF post_id \notin DOMAIN tracker_watched \/ ~data.ok
    THEN /\ tracker_last' = [op |-> "mark_all_seen", post |-> post_id,
                             fetched |-> <<>>, ret |-> <<>>,
                             before |-> tracker_watched, repeated |-> {}]
         /\ UNCHANGED <<tracker_watched, tracker_keys, tracker_file>>
    ELSE /\ tracker_watched' =
                [tracker_watched EXCEPT ![post_id].seen_comment_ids =
                                            _collect_comment_ids(MarkedComments(data))]
         /\ tracker_file' = tracker_watched'
         /\ tracker_last' = [op |-> "mark_all_seen", post |-> post_id,
                             fetched |-> [q \in {post_id} |-> data], ret |-> <<>>,
                             before |-> tracker_watched, repeated |-> {}]
         /\ UNCHANGED tracker_keys

(***************************************************************************)
(* Authors and submolts: a bare name, or an object with a name             *)
(***************************************************************************)
\* An author value: [kind |-> "str", name |-> n] is the string n,
\* [kind |-> "dict", name |-> n] the dict {"name": n}, [kind |-> "dict",
\* name |-> None] a dict without "name", [kind |-> "none"] no author at all.
NoAuthor == [kind |-> "none", name |-> None]

\* helpers._author_name
_author_name(author) ==
    IF author.kind = "dict"
    THEN (IF author.name = None THEN "unknown" ELSE author.name)
    ELSE (IF author.kind = "str" /\ author.name # "" THEN author.name ELSE "unknown")

(***************************************************************************)
(* FeedFilter                                                              *)
(***************************************************************************)
\* Author names given to block and unblock.
BlockNames == {"spammer", "alice", "unknown"}

\* Authors of the comments handed to the filter.
FilterAuthors ==
    {[kind |-> "str", name |-> "spammer"], [kind |-> "dict", name |-> "alice"], NoAuthor}

FilterIdSeqs == [k \in 0..MaxComments |-> {[i \in 1..k |-> "c" \o ToString(i)]}]

FilterForests == Forests(FilterIdSeqs, FilterAuthors, MaxComments)

\* FeedFilter.blocked
blocked == Range(filter_blocked)

\* Mutant of AddBlocked: the name is appended even when it is in the list.
AddBlockedAgain(blocked_list, name) == Append(blocked_list, name)

\* if name not in blocked: blocked.append(name)
AddBlocked(blocked_list, name) ==
    IF name \notin Range(blocked_list) THEN Append(blocked_list, name) ELSE blocked_list

block(name, reason) ==
    /\ filter_blocked' = AddBlocked(filter_blocked, name)
    /\ filter_reasons' = IF reason # None
                         THEN [n \in DOMAIN filter_reasons \cup {name} |->
                                  IF n = name THEN reason ELSE filter_reasons[n]]
                         ELSE filter_reasons
    /\ filter_file' = [blocked |-> filter_blocked', reasons |-> filter_reasons']
    /\ filter_last' = [op |-> "block", name |-> name, ret |-> <<>>]

\* Mutant of PopReason: the reason of the name stays.
PopReasonKept(reasons, name) == reasons

\* reasons.pop(name, None)
PopReason(reasons, name) == [n \in DOMAIN reasons \ {name} |-> reasons[n]]

unblock(name) ==
    /\ filter_blocked' = SelectList(filter_blocked, Range(filter_blocked) \ {name})
    /\ filter_reasons' = PopReason(filter_reasons, name)
    /\ filter_file' = [blocked |-> filter_blocked', reasons |-> filter_reasons']
    /\ filter_last' = [op |-> "unblock", name |-> name, ret |-> <<>>]

\* Mutant of PromoteReplies: the replies go with their blocked parent.
PromoteRepliesLost(filtered_replies) == <<>>

\* result.extend(filtered_replies): what a dropped comment leaves in the result.
PromoteReplies(filtered_replies) == filtered_replies

\* Mutant of KeepComment: the kept comment is rebuilt as a top-level one.
KeepCommentRebuilt(c, filtered_replies) ==
    <<[c EXCEPT !.replies = filtered_replies, !.parent_id = None]>>

\* result.append(c), with c = dict(c, replies=filtered_replies) when they differ.
KeepComment(c, filtered_replies) ==
    IF filtered_replies # c.replies
    THEN <<[c EXCEPT !.replies = filtered_replies]>>
    ELSE <<c>>

\* Mutant of ExtendResult: what is added goes in front of the result.
ExtendResultInFront(result, items) == items \o result

\* result.extend(items), and result.append(c) for items = <<c>>.
ExtendResult(result, items) == result \o items

\* FeedFilter.filter_comments on the blocked set names: the loop over
\* comments, result being the list built so far.
RECURSIVE FilterCommentLoop(_, _, _)
FilterCommentLoop(comments, names, result) ==
    IF comments = <<>> THEN result
    ELSE LET c == Head(comments)
             filtered_replies ==
                 IF c.replies # <<>> THEN FilterCommentLoop(c.replies, names, <<>>) ELSE <<>>
         IN  FilterCommentLoop(Tail(comments), names,
                 ExtendResult(result,
                     IF _author_name(c.author) \in names
                     THEN PromoteReplies(filtered_replies)
                     ELSE KeepComment(c, filtered_replies)))

\* FeedFilter.filter_comments on the blocked set names.
FilterCommentTree(comments, names) == FilterCommentLoop(comments, names, <<>>)

\* Lists of at most MaxFiltered posts, the i-th with identifier "p<i>".
FilterPostLists ==
    UNION {{[i \in 1..k |-> [id |-> "p" \o ToString(i), author |-> f[i]]] :
               f \in [1..k -> FilterAuthors]} : k \in 0..MaxFiltered}

\* Mutant of IsKeptPost: only a bare-string author is looked up.
IsKeptPostBareOnly(p, names) == p.author.kind = "str" => p.author.name \notin names

\* The condition of the comprehension of FeedFilter.filter_posts.
IsKeptPost(p, names) == _author_name(p.author) \notin names

\* FeedFilter.filter_posts: a new list is built, posts is left as it was.
filter_posts(posts) ==
    /\ filter_last' = [op |-> "filter_posts", name |-> None,
                       ret |-> SelectList(posts, {p \in Range(posts) : IsKeptPost(p, blocked)})]
    /\ feed_posts' = posts
    /\ UNCHANGED <<filter_blocked, filter_reasons, filter_file>>

filter_comments(comments) ==
    /\ filter_last' = [op |-> "filter_comments", name |-> None,
                       ret |-> FilterCommentTree(comments, blocked)]
    /\ UNCHANGED <<filter_blocked, filter_reasons, filter_file>>

(***************************************************************************)
(* Text: a Python string as the sequence of its characters                 *)
(***************************************************************************)
\* The characters of the strings the rules and the posts are made of.
Chars(s) ==
    CASE s = "" -> <<>>
      [] s = "SPAM" -> <<"S", "P", "A", "M">>
      [] s = "/sp.m/" -> <<"/", "s", "p", ".", "m", "/">>
      [] s = "/(/" -> <<"/", "(", "/">>
      [] s = "ali" -> <<"a", "l", "i">>
      [] s = "Spam offer" -> <<"S", "p", "a", "m", " ", "o", "f", "f", "e", "r">>
      [] s = "hello" -> <<"h", "e", "l", "l", "o">>
      [] s = "spammer" -> <<"s", "p", "a", "m", "m", "e", "r">>
      [] s = "alice" -> <<"a", "l", "i", "c", "e">>
      [] s = "unknown" -> <<"u", "n", "k", "n", "o", "w", "n">>
      [] s = "general" -> <<"g", "e", "n", "e", "r", "a", "l">>
      [] s = "other" -> <<"o", "t", "h", "e", "r">>

UpperCase == <<"A", "M", "P", "S">>
LowerCase == <<"a", "m", "p", "s">>

\* str.lower on one character.
LowerChar(ch) ==
    IF \E i \in 1..Len(UpperCase) : UpperCase[i] = ch
    THEN LowerCase[CHOOSE i \in 1..Len(UpperCase) : UpperCase[i] = ch]
    ELSE ch

\* str.lower
Lower(t) == [i \in 1..Len(t) |-> LowerChar(t[i])]

\* p in t, on character sequences.
Contains(p, t) ==
    \E off \in 0..(Len(t) - Len(p)) : \A i \in 1..Len(p) : p[i] = t[off + i]

\* re.compile fails (re.error) on an unclosed group; the expressions used
\* are made of letters, "." and "(".
RegexCompiles(re) == "(" \notin Range(re)

\* re.search(re, t, re.IGNORECASE) for an expression of letters and ".".
RegexSearch(re, t) ==
    \E off \in 0..(Len(t) - Len(re)) :
        \A i \in 1..Len(re) : re[i] = "." \/ LowerChar(re[i]) = LowerChar(t[off + i])

\* rules._match
_match(pattern, text) ==
    IF text = "" \/ text = None THEN FALSE
    ELSE LET p == Chars(pattern)
             t == Chars(text)
         IN  IF Len(p) > 2 /\ p[1] = "/" /\ p[Len(p)] = "/"
             THEN LET re == SubSeq(p, 2, Len(p) - 1)
                  IN  RegexCompiles(re) /\ RegexSearch(re, t)
             ELSE Contains(Lower(p), Lower(t))

\* helpers._submolt_name
_submolt_name(submolt) ==
    IF submolt.kind = "dict"
    THEN (IF submolt.name = None THEN "" ELSE submolt.name)
    ELSE (IF submolt.kind = "str" THEN submolt.name ELSE "")

\* rules._get_field
_get_field(post, field) ==
    IF field = "author"
    THEN _author_name(IF "author" \in DOMAIN post THEN post.author ELSE NoAuthor)
    ELSE IF field = "submolt"
    THEN _submolt_name(IF "submolt" \in DOMAIN post THEN post.submolt ELSE NoAuthor)
    ELSE IF field \in DOMAIN post THEN post[field] ELSE ""

(***************************************************************************)
(* FeedRules                                                               *)
(***************************************************************************)
\* The posts of a feed handed to apply: by spammer in general or by alice
\* in other, under either title.
RulesPosts ==
    {[title |-> t, author |-> w.author, submolt |-> w.submolt] :
        t \in {"Spam offer", "hello"},
        w \in {[author  |-> [kind |-> "str", name |-> "spammer"],
                 submolt |-> [kind |-> "str", name |-> "general"]],
                [author  |-> [kind |-> "dict", name |-> "alice"],
                 submolt |-> [kind |-> "dict", name |-> "other"]]}}

\* Feeds of at most MaxPosts posts, the i-th with identifier "p<i>".
RulesFeeds ==
    UNION {{[i \in 1..k |-> [id |-> "p" \o ToString(i), title |-> f[i].title,
                              author |-> f[i].author, submolt |-> f[i].submolt]] :
               f \in [1..k -> RulesPosts]} : k \in 0..MaxPosts}

\* FeedRules._rule_matches
_rule_matches(rule, post) ==
    IF rule.submolts # None /\ rule.submolts # <<>>
          /\ _get_field(post, "submolt") \notin Range(rule.submolts)
    THEN FALSE
    ELSE _match(rule.pattern, _get_field(post, rule.field))

\* An optional number (a count of days, a time in days): None is Nothing,
\* the number n is Some(n).
Nothing == <<>>

Some(n) == <<n>>

\* Mutant of Unexpired: no rule is ever dropped.
UnexpiredKeptAll(rules_list, t) == rules_list

\* Mutant of Unexpired: a rule is dropped only after its expiry time.
UnexpiredAtExpiry(rules_list, t) ==
    SelectList(rules_list, {r \in Range(rules_list) : ~(r.expires # Nothing /\ r.expires[1] < t)})

\* The rules that have not expired at time t (the loop of FeedRules.prune).
Unexpired(rules, t) ==
    SelectList(rules, {r \in Range(rules) : ~(r.expires # Nothing /\ r.expires[1] <= t)})

\* Mutant of ValidRule: the field is not validated.
ValidRuleAnyField(action, field) == action \in {"kill", "select"}

\* The two checks at the head of FeedRules.add.
ValidRule(action, field) ==
    action \in {"kill", "select"} /\ field \in {"title", "author", "submolt"}

add(action, field, pattern, submolts, expires_days) ==
    IF ~ValidRule(action, field)
    THEN /\ rules_last' = [op |-> "add", arg |-> <<action, field>>, raised |-> TRUE,
                           ret |-> <<>>, before |-> rules_rules, at |-> now,
                           days |-> expires_days]
         /\ UNCHANGED <<rules_rules, rules_file>>
    ELSE LET rule == [action |-> action, field |-> field, pattern |-> pattern,
                      submolts |-> submolts, created |-> now,
                      expires |-> IF expires_days # Nothing /\ expires_days[1] # 0
                                  THEN Some(now + expires_days[1]) ELSE Nothing]
         IN  /\ Len(rules_rules) < MaxRules
             /\ rules_rules' = Append(rules_rules, rule)
             /\ rules_file' = rules_rules'
             /\ rules_last' = [op |-> "add", arg |-> <<action, field>>, raised |-> FALSE,
                               ret |-> <<>>, before |-> rules_rules, at |-> now,
                               days |-> expires_days]

\* Mutant of Pop: the last element goes, whatever the index.
PopLast(lst, index) == SubSeq(lst, 1, Len(lst) - 1)

\* lst.pop(index), index counted from 0 and within the list.
Pop(lst, index) ==
    [i \in 1..(Len(lst) - 1) |-> IF i <= index THEN lst[i] ELSE lst[i + 1]]

remove(rule_id) ==
    /\ IF 0 <= rule_id /\ rule_id < Len(rules_rules)
       THEN /\ rules_rules' = Pop(rules_rules, rule_id)
            /\ rules_file' = rules_rules'
       ELSE UNCHANGED <<rules_rules, rules_file>>
    /\ rules_last' = [op |-> "remove", arg |-> rule_id, raised |-> FALSE, ret |-> <<>>,
                      before |-> rules_rules, at |-> now, days |-> Nothing]

\* The effect of FeedRules.prune on the store.
Pruned ==
    /\ rules_rules' = Unexpired(rules_rules, now)
    /\ rules_file' = IF Len(rules_rules') # Len(rules_rules) THEN rules_rules' ELSE rules_file

prune ==
    /\ Pruned
    /\ rules_last' = [op |-> "prune", arg |-> None, raised |-> FALSE, ret |-> <<>>,
                      before |-> rules_rules, at |-> now, days |-> Nothing]

\* The rules property.
rules ==
    /\ Pruned
    /\ rules_last' = [op |-> "rules", arg |-> None, raised |-> FALSE, ret |-> rules_rules',
                      before |-> rules_rules, at |-> now, days |-> Nothing]

\* Mutant of Verdict: a select match outranks a kill match.
VerdictSelectFirst(post_killed, post_selected) ==
    IF post_selected THEN "selected" ELSE IF post_killed THEN "killed" ELSE "keep"

\* The branch FeedRules.apply takes for a post once every rule was tried.
Verdict(post_killed, post_selected) ==
    IF post_killed THEN "killed" ELSE IF post_selected THEN "selected" ELSE "keep"

\* The flags FeedRules.apply holds for a post after the loop over the rules.
PostVerdict(rule_list, post) ==
    Verdict(\E r \in Range(rule_list) : _rule_matches(r, post) /\ r.action = "kill",
            \E r \in Range(rule_list) : _rule_matches(r, post) /\ r.action = "select")

\* Mutant of KeepVerdicts: a selected post is left out of keep.
KeepVerdictsUnselected == {"keep"}

\* The branches of FeedRules.apply that append the post to keep.
KeepVerdicts == {"keep", "selected"}

\* The three lists FeedRules.apply returns for posts under rule_list.
ApplyResult(rule_list, posts) ==
    LET having(vs) == SelectList(posts, {post \in Range(posts) :
                                            PostVerdict(rule_list, post) \in vs})
    IN  [keep     |-> having(KeepVerdicts),
         killed   |-> having({"killed"}),
         selected |-> having({"selected"})]

\* Mutant of KillRules: every rule counts as a kill rule.
KillRulesAny(rule_list) == rule_list

\* apply_comments: [r for r in rules if r["action"] == "kill"]
KillRules(rule_list) ==
    SelectList(rule_list, {r \in Range(rule_list) : r.action = "kill"})

\* FeedRules._filter_comment_tree: the loop over comments, result being the
\* list built so far (the list operations are those of filter_comments).
RECURSIVE _filter_comment_tree(_, _, _)
_filter_comment_tree(comments, kill_rules, result) ==
    IF comments = <<>> THEN result
    ELSE LET c == Head(comments)
             filtered_replies ==
                 IF c.replies # <<>> THEN _filter_comment_tree(c.replies, kill_rules, <<>>)
                 ELSE <<>>
             killed == \E r \in Range(kill_rules) : _rule_matches(r, c)
         IN  _filter_comment_tree(Tail(comments), kill_rules,
                 ExtendResult(result,
                     IF killed THEN PromoteReplies(filtered_replies)
                     ELSE KeepComment(c, filtered_replies)))

apply_comments(comments) ==
    /\ Pruned
    /\ rules_last' = [op |-> "apply_comments", arg |-> None, raised |-> FALSE,
                      ret |-> IF KillRules(rules_rules') = <<>> THEN comments
                              ELSE _filter_comment_tree(comments, KillRules(rules_rules'), <<>>),
                      before |-> rules_rules, at |-> now, days |-> Nothing]

\* Authors of the comments handed to apply_comments.
RulesAuthors ==
    {[kind |-> "str", name |-> "spammer"], [kind |-> "dict", name |-> "alice"]}

RulesForests == Forests(FilterIdSeqs, RulesAuthors, MaxComments)

apply(posts) ==
    /\ Pruned
    /\ rules_last' = [op |-> "apply", arg |-> None, raised |-> FALSE,
                      ret |-> ApplyResult(rules_rules', posts),
                      before |-> rules_rules, at |-> now, days |-> Nothing]

(***************************************************************************)
(* PartnerMonitor                                                          *)
(***************************************************************************)
\* Names given to add and remove.
PartnerNames == {"bicep", "Marth"}

\* The posts the feeds and the search are made of: two posts of bicep, a
\* later version of the first under the same identifier, a post of bicep
\* without identifier, and a post of Marth.
PartnerPosts ==
    {[id |-> "p1", title |-> "hello",  author |-> [kind |-> "str",  name |-> "bicep"]],
     [id |-> "p2", title |-> "hello",  author |-> [kind |-> "dict", name |-> "bicep"]],
     [id |-> "p1", title |-> "Spam offer", author |-> [kind |-> "str",  name |-> "bicep"]],
     [id |-> None, title |-> "hello",  author |-> [kind |-> "str",  name |-> "bicep"]],
     [id |-> "p3", title |-> "hello",  author |-> [kind |-> "dict", name |-> "Marth"]]}

PartnerPostIds == {p.id : p \in PartnerPosts} \ {None}

\* The post lists client.feed and client.search answer with: a post of bicep
\* or the post of Marth.
FetchedLists ==
    {<<p>> : p \in {q \in PartnerPosts : q.id \in {"p2", "p3"}}}

\* A failed client call (it raises).
CallFailed == [ok |-> FALSE, posts |-> <<>>, results |-> "none", found |-> <<>>]

\* client.feed answers: a failure, or {"posts": posts}.
FeedResponses ==
    {CallFailed} \cup {[ok |-> TRUE, posts |-> ps, results |-> "none", found |-> <<>>] :
                          ps \in FetchedLists}

\* client.search answers: a failure, {"posts": posts}, {"results": {"posts":
\* found}} or {"results": found}.
SearchResponses ==
    {CallFailed}
    \cup {[ok |-> TRUE, posts |-> ps, results |-> "none", found |-> <<>>] :
             ps \in FetchedLists}
    \cup {[ok |-> TRUE, posts |-> <<>>, results |-> kind, found |-> ps] :
             kind \in {"dict", "list"}, ps \in FetchedLists}

\* PartnerMonitor._find_posts_by_author
_find_posts_by_author(author_name, posts) ==
    SelectList(posts, {p \in Range(posts) : _author_name(p.author) = author_name})

\* PartnerMonitor._search_partner, client.search answering data.
_search_partner(name, data) ==
    IF ~data.ok THEN <<>>
    ELSE _find_posts_by_author(name, IF data.posts # <<>> THEN data.posts ELSE data.found)

\* The feed check and mark_all_seen fetch themselves: hot then new, a failed
\* fetch contributing nothing.
FetchedFeed(hot, new) ==
    (IF hot.ok THEN hot.posts ELSE <<>>) \o (IF new.ok THEN new.posts ELSE <<>>)

\* The values of the dict found_posts in insertion order: one post for each
\* identifier of ps, at the place of the first, with the content of the last.
RECURSIVE FoundPosts(_, _)
FoundPosts(ps, done) ==
    IF ps = <<>> THEN <<>>
    ELSE LET pid == Head(ps).id
         IN  IF pid = None \/ pid \in done THEN FoundPosts(Tail(ps), done)
             ELSE LET same == {i \in 1..Len(ps) : ps[i].id = pid}
                      last == CHOOSE i \in same : \A j \in same : j <= i
                  IN  <<ps[last]>> \o FoundPosts(Tail(ps), done \cup {pid})

\* found_posts of check for the partner name.
FoundFor(name, feed, use_search, data) ==
    FoundPosts(_find_posts_by_author(name, feed)
                   \o (IF use_search THEN _search_partner(name, data) ELSE <<>>), {})

\* helpers.summarize_post, on the fields a post of the model has.
summarize_post(post) ==
    [id |-> post.id, title |-> post.title, author |-> _author_name(post.author)]

\* Mutant of IsNewPost: every found post counts as new.
IsNewPostAlways(pid, seen_ids) == TRUE

\* check: pid not in seen_ids
IsNewPost(pid, seen_ids) == pid \notin seen_ids

\* new_posts of check for an entry and its found posts.
NewPosts(entry, found) ==
    SelectList(found, {p \in Range(found) : IsNewPost(p.id, Range(entry.seen_post_ids))})

\* Mutant of FoldSeen: only the new identifiers are kept.
FoldSeenFoundOnly(seen_ids, found_ids) == found_ids

\* check: seen_ids | set(found_posts.keys())
FoldSeen(seen_ids, found_ids) == seen_ids \cup found_ids

\* The result entries of check for the partners keys, in order.
RECURSIVE PartnerResults(_, _, _, _, _)
PartnerResults(keys, state, feed, use_search, search) ==
    IF keys = <<>> THEN <<>>
    ELSE LET name      == Head(keys)
             new_posts == NewPosts(state[name],
                                   FoundFor(name, feed, use_search, search[name]))
         IN  (IF new_posts # <<>>
              THEN <<[partner   |-> name,
                      new_posts |-> [i \in 1..Len(new_posts) |-> summarize_post(new_posts[i])],
                      oneline   |-> [i \in 1..Len(new_posts) |->
                                        <<new_posts[i].title, _author_name(new_posts[i].author),
                                          new_posts[i].id>>]]>>
              ELSE <<>>) \o PartnerResults(Tail(keys), state, feed, use_search, search)

\* The ways to pick, for every name of names, one of the lists choices[name].
RECURSIVE ListChoices(_, _)
ListChoices(names, choices) ==
    IF names = {} THEN {<<>>}
    ELSE LET n == CHOOSE m \in names : TRUE
         IN  {[m \in DOMAIN f \cup {n} |-> IF m = n THEN lst ELSE f[m]] :
                 f \in ListChoices(names \ {n}, choices), lst \in choices[n]}

\* PartnerMonitor.add (the method is called add; the name is taken by FeedRules.add)
partner_add(name) ==
    /\ IF name \notin DOMAIN partners_state
       THEN /\ partners_state' = [n \in DOMAIN partners_state \cup {name} |->
                                    IF n = name THEN [seen_post_ids |-> <<>>]
                                    ELSE partners_state[n]]
            /\ partners_keys' = Append(partners_keys, name)
            /\ partners_file' = partners_state'
       ELSE UNCHANGED <<partners_state, partners_keys, partners_file>>
    /\ partners_last' = [op |-> "add", name |-> name, feed |-> <<>>, supplied |-> FALSE,
                         use_search |-> FALSE,
                         search |-> <<>>, before |-> partners_state, ret |-> <<>>]

\* PartnerMonitor.remove
partner_remove(name) ==
    /\ partners_state' = [n \in DOMAIN partners_state \ {name} |-> partners_state[n]]
    /\ partners_keys' = SelectList(partners_keys, Range(partners_keys) \ {name})
    /\ partners_file' = partners_state'
    /\ partners_last' = [op |-> "remove", name |-> name, feed |-> <<>>, supplied |-> FALSE,
                         use_search |-> FALSE,
                         search |-> <<>>, before |-> partners_state, ret |-> <<>>]

\* PartnerMonitor.check: the argument feed_posts is given_posts, or None when
\* supplied is FALSE, and check then fetches hot and new itself; search[name]
\* is what client.search answers for the partner name.
partner_check(supplied, given_posts, use_search, hot, new, search) ==
    LET feed == IF ~supplied THEN FetchedFeed(hot, new) ELSE given_posts
        all_found_ids == [n \in DOMAIN partners_state |->
            ListsOfSet(FoldSeen(Range(partners_state[n].seen_post_ids),
                                {p.id : p \in Range(FoundFor(n, feed, use_search, search[n]))}))]
    IN  \E seen \in ListChoices(DOMAIN partners_state, all_found_ids) :
            /\ partners_state' = [n \in DOMAIN partners_state |-> [seen_post_ids |-> seen[n]]]
            /\ partners_file' = partners_state'
            /\ partners_last' = [op |-> "check", name |-> None, feed |-> feed,
                                 supplied |-> supplied,
                                 use_search |-> use_search,
                                 search |-> IF use_search THEN search ELSE <<>>,
                                 before |-> partners_state,
                                 ret |-> PartnerResults(partners_keys, partners_state, feed,
                                                        use_search, search)]
            /\ UNCHANGED partners_keys

\* PartnerMonitor.mark_all_seen
partner_mark_all_seen(name, hot, new) ==
    LET feed   == FetchedFeed(hot, new)
        chosen == IF name # None /\ name \in DOMAIN partners_state
                  THEN {name} ELSE DOMAIN partners_state
        found_ids == [n \in chosen |->
            ListsOfSet(Range(partners_state[n].seen_post_ids)
                           \cup ({p.id : p \in Range(_find_posts_by_author(n, feed))} \ {None}))]
    IN  \E seen \in ListChoices(chosen, found_ids) :
            /\ partners_state' = [n \in DOMAIN partners_state |->
                                    IF n \in chosen THEN [seen_post_ids |-> seen[n]]
                                    ELSE partners_state[n]]
            /\ partners_file' = partners_state'
            /\ partners_last' = [op |-> "mark_all_seen", name |-> name, feed |-> feed,
                                 supplied |-> FALSE,
                                 use_search |-> FALSE, search |-> <<>>,
                                 before |-> partners_state, ret |-> <<>>]
            /\ UNCHANGED partners_keys

\* History: the identifiers the last call reported for partner n.
ReportedNow(last, n) ==
    UNION {{q.id : q \in Range(last.ret[i].new_posts)} :
              i \in {j \in 1..Len(last.ret) : last.ret[j].partner = n}}

\* History: what was reported for each partner since it was added.
HistReported ==
    partners_reported' =
        [n \in DOMAIN partners_state' |->
            (IF n \in DOMAIN partners_reported THEN partners_reported[n] ELSE {})
                \cup ReportedNow(partners_last', n)]

PartnersInit ==
    /\ partners_state = <<>>
    /\ partners_keys = <<>>
    /\ partners_file = <<>>
    /\ partners_last = [op |-> "init", name |-> None, feed |-> <<>>, supplied |-> FALSE,
                         use_search |-> FALSE,
                        search |-> <<>>, before |-> <<>>, ret |-> <<>>]
    /\ partners_reported = <<>>

(***************************************************************************)
(* Session                                                                 *)
(***************************************************************************)
\* The posts client.feed answers with: a post of bicep, a post of bicep
\* with a spam title, a post of alice.
SessionPosts ==
    <<[isdict |-> TRUE, id |-> "p1", title |-> "hello",
       author |-> [kind |-> "str", name |-> "bicep"]],
      [isdict |-> TRUE, id |-> "p2", title |-> "Spam offer",
       author |-> [kind |-> "dict", name |-> "bicep"]],
      [isdict |-> TRUE, id |-> "p3", title |-> "hello",
       author |-> [kind |-> "dict", name |-> "alice"]]>>

\* helpers.summarize_posts
summarize_posts(posts) == [i \in 1..Len(posts) |-> summarize_post(posts[i])]

\* The sources documents FeedCursor.mark_seen(posts, source) may leave.
MarkedSources(sources, posts, source) ==
    LET name == SourceKey(source)
        s    == _source(sources, name)
    IN  {WriteSource(s, name, [seen_ids |-> l, last_checked |-> now]) :
            l \in SeenListsAfter(s[name].seen_ids, posts)}

\* all_feed = hot_posts + new_posts, the lists after filtering and rules.
PartnerFeed(hot_raw, new_raw, hot_posts, new_posts) == hot_posts \o new_posts

\* Mutant of CursorFeed: the fetched list is folded into the cursor.
CursorFeedRaw(raw, posts) == raw

\* The list Session.start hands to unseen and mark_seen: hot_posts (new_posts)
\* as reassigned by the blocklist and the rules.
CursorFeed(raw, posts) == posts

\* The stores a Session can be constructed with (the optional arguments of
\* Session.__init__).
SessionParts == {"tracker", "feed_filter", "partner_monitor", "feed_rules", "feed_cursor"}

\* Session.start of a session constructed with the stores in parts;
\* client.feed answers hot_raw and new_raw.
session_start(parts, hot_raw, new_raw) ==
    LET names == IF "feed_filter" \in parts THEN blocked ELSE {}
        s1    == _source(cursor_sources, "hot")
        s2    == _source(s1, "new")
    IN
    \E hot_clean \in {SelectList(hot_raw, {p \in Range(hot_raw) : IsKeptPost(p, names)})},
       new_clean \in {SelectList(new_raw, {p \in Range(new_raw) : IsKeptPost(p, names)})},
       live \in {IF "feed_rules" \in parts THEN Unexpired(rules_rules, now) ELSE <<>>} :
    \E hot_result \in {ApplyResult(live, hot_clean)},
       new_result \in {ApplyResult(live, new_clean)} :
    \E hot_posts \in {hot_result.keep}, new_posts \in {new_result.keep} :
    \E hot_given \in {CursorFeed(hot_raw, hot_posts)},
       new_given \in {CursorFeed(new_raw, new_posts)} :
        /\ IF "feed_filter" \in parts
           THEN /\ filter_last' = [op |-> "filter_posts", name |-> None, ret |-> new_clean]
                /\ UNCHANGED <<filter_blocked, filter_reasons, filter_file>>
           ELSE UNCHANGED filterVars
        /\ IF "feed_rules" \in parts
           THEN /\ Pruned
                /\ rules_last' = [op |-> "apply", arg |-> None, raised |-> FALSE,
                                  ret |-> new_result, before |-> live, at |-> now,
                                  days |-> Nothing]
           ELSE UNCHANGED rulesVars
        /\ IF "feed_cursor" \in parts
           THEN \E s3 \in MarkedSources(s2, hot_given, "hot") :
                \E s4 \in MarkedSources(s3, new_given, "new") :
                  /\ cursor_sources' = s4
                  /\ cursor_file' = cursor_sources'
                  /\ cursor_last' =
                         [op |-> "mark_seen", source |-> "new", posts |-> new_given,
                          total |-> Cardinality(Range(s3["new"].seen_ids)
                                                  \cup MarkedIds(new_given))]
           ELSE UNCHANGED cursorVars
        /\ IF "tracker" \in parts THEN check_replies(<<>>) ELSE UNCHANGED trackerVars
        /\ IF "partner_monitor" \in parts
           THEN partner_check(TRUE, PartnerFeed(hot_raw, new_raw, hot_posts, new_posts),
                              FALSE, CallFailed, CallFailed,
                              [n \in DOMAIN partners_state |-> CallFailed])
           ELSE UNCHANGED partnerVars
        /\ session_last' =
               [op |-> "start", made |-> session_last.made, known |-> session_last.known,
                parts |-> parts, hot |-> hot_raw, new |-> new_raw,
                blocked |-> names, rules |-> live, seen |-> cursor_sources,
                partners |-> partners_state,
                brief |->
                   [feed_hot |-> summarize_posts(hot_posts),
                    feed_new |-> summarize_posts(new_posts),
                    unseen_hot |->
                        IF "feed_cursor" \in parts
                        THEN summarize_posts(UnseenResult(cursor_sources, hot_given, "hot").ret)
                        ELSE summarize_posts(hot_posts),
                    unseen_new |->
                        IF "feed_cursor" \in parts
                        THEN summarize_posts(UnseenResult(s1, new_given, "new").ret)
                        ELSE summarize_posts(new_posts),
                    selected |-> summarize_posts(hot_result.selected \o new_result.selected),
                    filtered_count |-> (Len(hot_raw) - Len(hot_clean))
                                          + (Len(new_raw) - Len(new_clean)),
                    killed_count |-> Len(hot_result.killed) + Len(new_result.killed),
                    replies |-> IF "tracker" \in parts THEN tracker_last'.ret ELSE <<>>,
                    partner_activity |->
                        IF "partner_monitor" \in parts THEN partners_last'.ret ELSE <<>>]]
        /\ UNCHANGED <<now, cursorHist, feedVars, partnerHist, loadVars, peerVars>>

\* What client.comment returns for the comment it created with identifier
\* id: {"comment": {"id": id}}, {"id": id}, or a dict without identifier.
CommentResults ==
    {[id |-> i, shape |-> sh] : i \in CommentIds, sh \in {"wrapped", "bare", "noid"}}

\* Mutant of ResultId: the identifier is read under "comment" only.
ResultIdWrappedOnly(result) == IF result.shape = "wrapped" THEN result.id ELSE None

\* comment = result.get("comment", result); comment_id = comment.get("id")
ResultId(result) == IF result.shape = "noid" THEN None ELSE result.id

\* Session.comment_and_watch of a session with a tracker, client.comment
\* returning result.
comment_and_watch(post_id, result) ==
    /\ watch(post_id, ResultId(result))
    /\ session_last' =
           [op |-> "comment_and_watch", post |-> post_id, result |-> result,
            made |-> session_last.made \cup {<<post_id, result.id>>},
            known |-> session_last.known
                         \cup (IF result.shape # "noid"
                               THEN {<<post_id, result.id>>} ELSE {})]

\* History kept beside unwatch: the comments made on the post are no longer
\* known to the tracker, and the last call that went through the session's
\* history is the unwatch.
HistUnwatch(post_id) ==
    session_last' = [op |-> "unwatch", post |-> post_id,
                     made |-> session_last.made,
                     known |-> {pc \in session_last.known : pc[1] # post_id}]

\* Time passes between two calls.
Tick ==
    /\ now < MaxNow
    /\ now' = now + 1

CursorInit ==
    /\ cursor_sources = <<>>
    /\ cursor_file = <<>>
    /\ cursor_last = [op |-> "init", source |-> None, posts |-> <<>>,
                      total |-> 0]
    /\ cursor_newest = <<>>

TrackerInit ==
    /\ tracker_watched = <<>>
    /\ tracker_keys = <<>>
    /\ tracker_file = <<>>
    /\ tracker_last = [op |-> "init", post |-> None, fetched |-> <<>>, ret |-> <<>>,
                       before |-> <<>>, repeated |-> {}]

FilterInit ==
    /\ filter_blocked = <<>>
    /\ filter_reasons = <<>>
    /\ filter_file = [blocked |-> <<>>, reasons |-> <<>>]
    /\ filter_last = [op |-> "init", name |-> None, ret |-> <<>>]

RulesInit ==
    /\ rules_rules = <<>>
    /\ rules_file = <<>>
    /\ rules_last = [op |-> "init", arg |-> None, raised |-> FALSE, ret |-> <<>>,
                     before |-> <<>>, at |-> 0, days |-> Nothing]

\* What the file at the path of a store may be when the store is constructed:
\* no file, text that is no JSON document (the empty file included), bytes
\* that are no UTF-8 text.
LoadContents == {"missing", "malformed", "undecodable"}

\* Whether json.loads(path.read_text()) inside the try block of load_json and
\* of the _load methods raises past its except clause, which names
\* FileNotFoundError and json.JSONDecodeError: read_text decodes the bytes
\* (UTF-8, the default encoding) and raises UnicodeDecodeError on bytes that
\* are no text.
LoadRaises(content) == content = "undecodable"

\* The construction of a store on a path holding content.  When the
\* constructor raises there is no new instance and the store in use stays.
ConstructedAs(store, content) ==
    /\ loaded' = [op |-> "construct", store |-> store, content |-> content,
                  raised |-> LoadRaises(content)]
    /\ UNCHANGED <<keyless, peerVars, sessionVars>>

construct_cursor(content) ==
    /\ ConstructedAs("cursor", content)
    /\ IF LoadRaises(content) THEN UNCHANGED <<cursorVars, cursorHist>>
       ELSE /\ cursor_sources' = <<>>
            /\ cursor_file' = <<>>
            /\ cursor_last' = [op |-> "init", source |-> None, posts |-> <<>>, total |-> 0]
            /\ cursor_newest' = <<>>
    /\ UNCHANGED <<now, trackerVars, filterVars, rulesVars, feedVars, partnerVars, partnerHist>>

construct_tracker(content) ==
    /\ ConstructedAs("tracker", content)
    /\ IF LoadRaises(content) THEN UNCHANGED trackerVars
       ELSE /\ tracker_watched' = <<>>
            /\ tracker_keys' = <<>>
            /\ tracker_file' = <<>>
            /\ tracker_last' = [op |-> "init", post |-> None, fetched |-> <<>>, ret |-> <<>>,
                                before |-> <<>>, repeated |-> {}]
    /\ UNCHANGED <<now, cursorVars, cursorHist, filterVars, rulesVars, feedVars,
                   partnerVars, partnerHist>>

construct_filter(content) ==
    /\ ConstructedAs("filter", content)
    /\ IF LoadRaises(content) THEN UNCHANGED filterVars
       ELSE /\ filter_blocked' = <<>>
            /\ filter_reasons' = <<>>
            /\ filter_file' = [blocked |-> <<>>, reasons |-> <<>>]
            /\ filter_last' = [op |-> "init", name |-> None, ret |-> <<>>]
    /\ UNCHANGED <<now, cursorVars, cursorHist, trackerVars, rulesVars, feedVars,
                   partnerVars, partnerHist>>

construct_rules(content) ==
    /\ ConstructedAs("rules", content)
    /\ IF LoadRaises(content) THEN UNCHANGED rulesVars
       ELSE /\ rules_rules' = <<>>
            /\ rules_file' = <<>>
            /\ rules_last' = [op |-> "init", arg |-> None, raised |-> FALSE, ret |-> <<>>,
                              before |-> <<>>, at |-> 0, days |-> Nothing]
    /\ UNCHANGED <<now, cursorVars, cursorHist, trackerVars, filterVars, feedVars,
                   partnerVars, partnerHist>>

construct_partners(content) ==
    /\ ConstructedAs("partners", content)
    /\ IF LoadRaises(content) THEN UNCHANGED <<partnerVars, partnerHist>>
       ELSE /\ partners_state' = <<>>
            /\ partners_keys' = <<>>
            /\ partners_file' = <<>>
            /\ partners_last' = [op |-> "init", name |-> None, feed |-> <<>>,
                                 supplied |-> FALSE, use_search |-> FALSE,
                                 search |-> <<>>, before |-> <<>>, ret |-> <<>>]
            /\ partners_reported' = <<>>
    /\ UNCHANGED <<now, cursorVars, cursorHist, trackerVars, filterVars, rulesVars, feedVars>>

\* The stores right after construction on missing files.
StoresInit ==
    /\ now = 0
    /\ loaded = [op |-> "init", store |-> None, content |-> None, raised |-> FALSE]
    /\ keyless = {}
    /\ peer_sources = <<>>
    /\ peer_last = [op |-> "init", source |-> None, posts |-> <<>>, loaded |-> <<>>,
                    flip |-> FALSE]
    /\ session_last = [op |-> "init", made |-> {}, known |-> {}]
    /\ PartnersInit
    /\ CursorInit
    /\ TrackerInit
    /\ FilterInit
    /\ RulesInit

Init ==
    /\ StoresInit
    /\ feed_comments = <<>>
    /\ feed_posts = <<>>

\* The stores after construction, and a comment tree delivered for filtering.
InitFilter ==
    /\ StoresInit
    /\ feed_comments \in FilterForests
    /\ feed_posts = <<>>

\* The stores after construction, and a list of posts delivered for filtering.
InitFilterPosts ==
    /\ StoresInit
    /\ feed_comments = <<>>
    /\ feed_posts \in FilterPostLists

\* The stores after construction, and a comment tree delivered for
\* FeedRules.apply_comments.
InitRulesComments ==
    /\ StoresInit
    /\ feed_comments \in RulesForests
    /\ feed_posts = <<>>

\* The stores after construction, and a feed delivered for FeedRules.apply.
InitRules ==
    /\ StoresInit
    /\ feed_comments = <<>>
    /\ feed_posts \in RulesFeeds

otherThanCursor == <<trackerVars, filterVars, rulesVars, feedVars,
    partnerVars, partnerHist, loadVars, peerVars, sessionVars>>

\* The FeedCursor methods called with posts from lists and sources from srcs.
NextCursorOn(lists, srcs) ==
    \/ /\ \E posts \in lists, source \in srcs : mark_seen(posts, source)
       /\ UNCHANGED <<now, cursorHist, otherThanCursor>>
    \/ /\ \E posts \in lists, source \in srcs : unseen(posts, source)
       /\ UNCHANGED <<now, cursorHist, otherThanCursor>>
    \/ /\ \E source \in srcs : catch_up(source)
       /\ UNCHANGED <<now, cursorHist, otherThanCursor>>
    \/ /\ \E source \in srcs : reset(source)
       /\ UNCHANGED <<now, cursorHist, otherThanCursor>>

\* FeedCursor used on one source, batches of posts.
NextCursor == NextCursorOn(CursorPostLists, {"hot"})

SpecCursor == Init /\ [][NextCursor]_vars

\* FeedCursor used on two sources ("hot", and None for "default").
NextCursorPair == NextCursorOn(SinglePostLists, SourceArgs)

SpecCursorPair == Init /\ [][NextCursorPair]_vars

\* FeedCursor with catch_up also called with posts, for a named source and
\* for the default one.
NextCursorCatchUp ==
    \/ NextCursorOn(SinglePostLists, {"hot"})
    \/ /\ \E posts \in SinglePostLists, source \in SourceArgs : catch_up_posts(source, posts)
       /\ UNCHANGED <<now, cursorHist, otherThanCursor>>

SpecCursorCatchUp == Init /\ [][NextCursorCatchUp]_vars

\* FeedCursor used on one source, with the insertion history kept.
NextCursorHist ==
    \/ /\ \E posts \in CursorPostLists :
             mark_seen(posts, "hot") /\ HistMarkSeen(posts, "hot")
       /\ UNCHANGED <<now, otherThanCursor>>
    \/ /\ \E posts \in CursorPostLists : unseen(posts, "hot")
       /\ UNCHANGED <<now, cursorHist, otherThanCursor>>
    \/ /\ catch_up("hot")
       /\ UNCHANGED <<now, cursorHist, otherThanCursor>>
    \/ /\ reset("hot") /\ HistReset("hot")
       /\ UNCHANGED <<now, otherThanCursor>>

SpecCursorHist == Init /\ [][NextCursorHist]_vars

otherThanTracker == <<now, cursorVars, cursorHist, filterVars, rulesVars, feedVars,
    partnerVars, partnerHist, loadVars, peerVars, sessionVars>>

\* The ConversationTracker methods on the posts posts, own comment
\* identifiers from mine.
NextTrackerOn(posts, mine) ==
    \/ /\ \E post_id \in posts, my_comment_id \in mine \cup {None} :
             watch(post_id, my_comment_id)
       /\ UNCHANGED otherThanTracker
    \/ /\ \E post_id \in posts : unwatch(post_id)
       /\ UNCHANGED otherThanTracker
    \/ /\ \E fetched \in [DOMAIN tracker_watched -> Responses] : check_replies(fetched)
       /\ UNCHANGED otherThanTracker
    \/ /\ \E post_id \in posts, data \in Responses : mark_all_seen(post_id, data)
       /\ UNCHANGED otherThanTracker

\* What client.post answers in the two-post specification: a failure, or
\* one top-level comment.
PairResponses ==
    {FetchFailed}
        \cup {[ok |-> TRUE, title |-> "title", has_top |-> TRUE,
               top |-> <<[id |-> cid, author |-> [kind |-> "str", name |-> "someone"],
                          parent_id |-> None, replies |-> <<>>]>>,
               has_post |-> FALSE, nested |-> <<>>] : cid \in {"c1", "c2"}}

\* ConversationTracker watching two posts, each fetch failing or not.
NextTrackerPair ==
    \/ /\ \E post_id \in {"post-1", "post-2"}, my_comment_id \in {"c1", None} :
             watch(post_id, my_comment_id)
       /\ UNCHANGED otherThanTracker
    \/ /\ \E post_id \in {"post-1", "post-2"} : unwatch(post_id)
       /\ UNCHANGED otherThanTracker
    \/ /\ \E fetched \in [DOMAIN tracker_watched -> PairResponses] : check_replies(fetched)
       /\ UNCHANGED otherThanTracker

SpecTrackerPair == Init /\ [][NextTrackerPair]_vars

\* ConversationTracker watching one post on which the caller has two
\* comments of its own.
NextTrackerWatch ==
    \/ /\ \E my_comment_id \in {"c1", "c2", None} : watch("post-1", my_comment_id)
       /\ UNCHANGED otherThanTracker
    \/ /\ unwatch("post-1")
       /\ UNCHANGED otherThanTracker
    \/ /\ \E fetched \in [DOMAIN tracker_watched -> PairResponses] : check_replies(fetched)
       /\ UNCHANGED otherThanTracker
    \/ /\ \E data \in PairResponses : mark_all_seen("post-1", data)
       /\ UNCHANGED otherThanTracker

SpecTrackerWatch == Init /\ [][NextTrackerWatch]_vars

\* What a call of the tracker or of comment_and_watch leaves alone.
otherThanWatching ==
    <<now, cursorVars, cursorHist, filterVars, rulesVars, feedVars, partnerVars,
      partnerHist, loadVars, peerVars>>

\* A session with a tracker: comments are made and watched through the
\* session, the post is unwatched and watched again, replies are checked.
NextSessionWatch ==
    \/ /\ \E result \in CommentResults : comment_and_watch("post-1", result)
       /\ UNCHANGED otherThanWatching
    \/ /\ unwatch("post-1")
       /\ HistUnwatch("post-1")
       /\ UNCHANGED otherThanWatching
    \/ /\ watch("post-1", None)
       /\ UNCHANGED otherThanTracker
    \/ /\ \E fetched \in [DOMAIN tracker_watched -> PairResponses] : check_replies(fetched)
       /\ UNCHANGED otherThanTracker

SpecSessionWatch == Init /\ [][NextSessionWatch]_vars

\* ConversationTracker watching one post, c1 being the caller's own comment.
NextTracker == NextTrackerOn({"post-1"}, {"c1"})

SpecTracker == Init /\ [][NextTracker]_vars

otherThanFilter == <<now, cursorVars, cursorHist, trackerVars, rulesVars, feedVars,
    partnerVars, partnerHist, loadVars, peerVars, sessionVars>>

\* The FeedFilter methods, filter_comments on the delivered tree.
NextFilter ==
    \/ /\ \E name \in BlockNames, reason \in {None, "why"} : block(name, reason)
       /\ UNCHANGED otherThanFilter
    \/ /\ \E name \in BlockNames : unblock(name)
       /\ UNCHANGED otherThanFilter
    \/ /\ filter_comments(feed_comments)
       /\ UNCHANGED otherThanFilter

SpecFilter == InitFilter /\ [][NextFilter]_vars

\* The FeedFilter methods, filter_posts on the delivered list.
NextFilterPosts ==
    \/ /\ \E name \in BlockNames, reason \in {None, "why"} : block(name, reason)
       /\ UNCHANGED otherThanFilter
    \/ /\ \E name \in BlockNames : unblock(name)
       /\ UNCHANGED otherThanFilter
    \/ /\ filter_posts(feed_posts)
       /\ UNCHANGED <<now, cursorVars, cursorHist, trackerVars, rulesVars, feed_comments,
                      partnerVars, partnerHist, loadVars, peerVars, sessionVars>>

SpecFilterPosts == InitFilterPosts /\ [][NextFilterPosts]_vars

otherThanRules == <<cursorVars, cursorHist, trackerVars, filterVars, feedVars,
    partnerVars, partnerHist, loadVars, peerVars, sessionVars>>

\* The FeedRules methods called with actions, (field, pattern, submolts)
\* triples from args and expiry arguments from days; apply on the feed.
NextRulesOn(actions, args, days) ==
    \/ /\ \E action \in actions, a \in args, expires_days \in days :
             add(action, a[1], a[2], a[3], expires_days)
       /\ UNCHANGED <<now, otherThanRules>>
    \/ /\ \E rule_id \in -1..MaxRules : remove(rule_id)
       /\ UNCHANGED <<now, otherThanRules>>
    \/ /\ prune
       /\ UNCHANGED <<now, otherThanRules>>
    \/ /\ rules
       /\ UNCHANGED <<now, otherThanRules>>
    \/ /\ apply(feed_posts)
       /\ UNCHANGED <<now, otherThanRules>>

\* Rules on the title and the author, one of them scoped to a submolt.
MatchingArgs ==
    {<<"title", "SPAM", None>>, <<"title", "/sp.m/", <<"general">> >>,
     <<"author", "ali", None>>}

\* FeedRules with permanent rules ("hide" is no action).
NextRules == NextRulesOn({"kill", "select", "hide"}, MatchingArgs, {Nothing})

SpecRules == InitRules /\ [][NextRules]_vars

\* Rules on the title, the author and the submolt, and one on a field that
\* is none.
EditArgs ==
    {<<"title", "SPAM", None>>, <<"author", "ali", None>>, <<"submolt", "/(/", None>>,
     <<"body", "SPAM", None>>}

\* FeedRules edited with valid and invalid arguments; apply on an empty feed.
NextRulesEdit == NextRulesOn({"kill", "select", "hide"}, EditArgs, {Nothing})

SpecRulesEdit == Init /\ [][NextRulesEdit]_vars

\* Rules on the title with a submolts list: one submolt, the other submolt,
\* and the empty list.
ScopeArgs == {<<"title", "/sp.m/", <<"general">> >>, <<"title", "SPAM", <<"other">> >>,
              <<"title", "SPAM", <<>> >>}

NextRulesScope == NextRulesOn({"kill", "select"}, ScopeArgs, {Nothing})

SpecRulesScope == InitRules /\ [][NextRulesScope]_vars

\* Rules on the author, by substring and by regular expression.
CommentArgs == {<<"author", "ali", None>>, <<"author", "/sp.m/", None>>}

\* FeedRules used on a comment tree: rules are added and removed, and
\* apply_comments runs on the delivered tree.
NextRulesComments ==
    \/ /\ \E action \in {"kill", "select"}, a \in CommentArgs :
             add(action, a[1], a[2], a[3], Nothing)
       /\ UNCHANGED <<now, otherThanRules>>
    \/ /\ \E rule_id \in 0..(MaxRules - 1) : remove(rule_id)
       /\ UNCHANGED <<now, otherThanRules>>
    \/ /\ apply_comments(feed_comments)
       /\ UNCHANGED <<now, otherThanRules>>

SpecRulesComments == InitRulesComments /\ [][NextRulesComments]_vars

\* Expiry arguments of add: none, none by 0, a day ahead, a day back.
ExpiryDays == {Nothing, Some(0), Some(1), Some(-1)}

\* Two rules told apart by their pattern.
ExpiryArgs == {<<"title", "SPAM", None>>, <<"author", "ali", None>>}

\* FeedRules with expiring rules while time passes.
NextRulesExpiry ==
    \/ NextRulesOn({"kill"}, ExpiryArgs, ExpiryDays)
    \/ /\ Tick
       /\ UNCHANGED <<rulesVars, otherThanRules>>

SpecRulesExpiry == Init /\ [][NextRulesExpiry]_vars

\* Expiry arguments of add: none, or a day ahead.
LapseDays == {Nothing, Some(1)}

\* A rule on the author, matching alice.
LapseArgs == {<<"author", "ali", None>>}

\* The stores after construction, and either a feed of one post or a comment
\* tree delivered.
InitRulesLapse ==
    /\ StoresInit
    /\ \/ /\ feed_comments = <<>>
          /\ feed_posts \in {f \in RulesFeeds : Len(f) = 1}
       \/ /\ feed_comments \in Forests(FilterIdSeqs, RulesAuthors, MaxTree) \ {<<>>}
          /\ feed_posts = <<>>

\* FeedRules with rules that expire while time passes, applied to posts and
\* to comments, listed and removed by position.
NextRulesLapse ==
    \/ /\ \E action \in {"kill", "select"}, a \in LapseArgs, expires_days \in LapseDays :
             add(action, a[1], a[2], a[3], expires_days)
       /\ UNCHANGED <<now, otherThanRules>>
    \/ /\ \E rule_id \in 0..(MaxRules - 1) : remove(rule_id)
       /\ UNCHANGED <<now, otherThanRules>>
    \/ /\ rules
       /\ UNCHANGED <<now, otherThanRules>>
    \/ /\ apply(feed_posts)
       /\ UNCHANGED <<now, otherThanRules>>
    \/ /\ apply_comments(feed_comments)
       /\ UNCHANGED <<now, otherThanRules>>
    \/ /\ Tick
       /\ UNCHANGED <<rulesVars, otherThanRules>>

SpecRulesLapse == InitRulesLapse /\ [][NextRulesLapse]_vars

\* The stores after construction, and a comment tree delivered to both
\* FeedFilter.filter_comments and FeedRules.apply_comments.
InitTrees ==
    /\ StoresInit
    /\ feed_comments \in RulesForests
    /\ feed_posts = <<>>

\* The two tree filters on the delivered tree: an author is blocked and
\* unblocked, a kill rule on the author is added.
NextTrees ==
    \/ /\ block("spammer", None)
       /\ UNCHANGED otherThanFilter
    \/ /\ unblock("spammer")
       /\ UNCHANGED otherThanFilter
    \/ /\ filter_comments(feed_comments)
       /\ UNCHANGED otherThanFilter
    \/ /\ \E a \in LapseArgs : add("kill", a[1], a[2], a[3], Nothing)
       /\ UNCHANGED <<now, otherThanRules>>
    \/ /\ apply_comments(feed_comments)
       /\ UNCHANGED <<now, otherThanRules>>

SpecTrees == InitTrees /\ [][NextTrees]_vars

\* Mutant of save_json: the identifiers the file holds are merged into data.
save_jsonMerged(content, data) ==
    [n \in DOMAIN content \cup DOMAIN data |->
        IF n \notin DOMAIN data THEN content[n]
        ELSE IF n \notin DOMAIN content THEN data[n]
        ELSE [data[n] EXCEPT !.seen_ids =
                 data[n].seen_ids \o SelectList(content[n].seen_ids,
                                        Range(content[n].seen_ids) \ Range(data[n].seen_ids))]]

\* helpers.save_json: Path(path).write_text(json.dumps(data)); the file
\* holds data, whatever it held before. FeedCursor._save writes its
\* document with the same write_text(json.dumps(...)) call.
save_json(content, data) == data

\* A second FeedCursor is constructed on the cursor file: _load reads what
\* the file holds at that time.
peer_construct ==
    /\ peer_sources' = cursor_file
    /\ peer_last' = [op |-> "load", source |-> None, posts |-> <<>>,
                     loaded |-> cursor_file, flip |-> ~peer_last.flip]
    /\ UNCHANGED cursor_file

\* mark_seen on the second FeedCursor: it works on the document it loaded
\* and saves it to the same file.
peer_mark_seen(posts, source) ==
    LET name    == SourceKey(source)
        sources == _source(peer_sources, name)
    IN  \E seen_list \in SeenListsAfter(sources[name].seen_ids, posts) :
          /\ peer_sources' =
                 WriteSource(sources, name, [seen_ids |-> seen_list, last_checked |-> now])
          /\ cursor_file' = save_json(cursor_file, peer_sources')
          /\ peer_last' = [op |-> "mark_seen", source |-> source, posts |-> posts,
                           loaded |-> peer_last.loaded, flip |-> ~peer_last.flip]

\* What a call on the second FeedCursor leaves alone: the first instance
\* and the other stores.
otherThanPeer ==
    <<now, cursor_sources, cursor_last, cursorHist, trackerVars, filterVars, rulesVars,
      feedVars, partnerVars, partnerHist, loadVars, sessionVars>>

\* Lists of at most one post, out of two posts.
PeerPostLists == SeqUpTo({[isdict |-> TRUE, id |-> i] : i \in {"p1", "p2"}}, 1)

\* Two FeedCursor instances on one file: the first marks posts seen, the
\* second is constructed at any time and marks posts seen.
NextCursorShared ==
    \/ /\ \E posts \in PeerPostLists : mark_seen(posts, "hot")
       /\ UNCHANGED <<now, cursorHist, otherThanCursor>>
    \/ /\ peer_construct
       /\ UNCHANGED otherThanPeer
    \/ /\ \E posts \in PeerPostLists : peer_mark_seen(posts, "hot")
       /\ UNCHANGED otherThanPeer

SpecCursorShared == Init /\ [][NextCursorShared]_vars

otherThanPartners ==
    <<now, cursorVars, cursorHist, trackerVars, filterVars, rulesVars, feedVars,
      loadVars, peerVars, sessionVars>>

\* The feeds client.feed answers with: hot of at most MaxFeed of the posts
\* of bicep in the order of their identifiers, new empty or the post of alice.
SessionFeeds ==
    {<<h, n>> :
        h \in UNION {{[i \in 1..k |-> SessionPosts[f[i]]] :
                         f \in {g \in [1..k -> 1..2] :
                                   \A i, j \in 1..k : i < j => g[i] < g[j]}} :
                     k \in 0..MaxFeed},
        n \in {<<>>, <<SessionPosts[3]>>}}

\* A session with a tracker, a blocklist, rules and a cursor: bicep is
\* blocked and a kill rule on the title is added between its starts.
NextSession ==
    \/ /\ block("bicep", None)
       /\ UNCHANGED otherThanFilter
    \/ /\ add("kill", "title", "SPAM", None, Nothing)
       /\ UNCHANGED <<now, otherThanRules>>
    \/ \E f \in SessionFeeds :
          session_start(SessionParts \ {"partner_monitor"}, f[1], f[2])

SpecSession == Init /\ [][NextSession]_vars

\* A session with a blocklist, rules and a partner monitor: bicep is
\* monitored, blocked, and a kill rule on the title is added between its
\* starts.
NextSessionPartners ==
    \/ /\ block("bicep", None)
       /\ UNCHANGED otherThanFilter
    \/ /\ add("kill", "title", "SPAM", None, Nothing)
       /\ UNCHANGED <<now, otherThanRules>>
    \/ /\ partner_add("bicep")
       /\ UNCHANGED <<otherThanPartners, partnerHist>>
    \/ \E f \in SessionFeeds :
          session_start({"feed_filter", "feed_rules", "partner_monitor"}, f[1], f[2])

SpecSessionPartners == Init /\ [][NextSessionPartners]_vars

\* The calls of check with a supplied feed and no search.
FeedCalls ==
    {[supplied |-> TRUE, feed_posts |-> f, use_search |-> FALSE, hot |-> CallFailed,
      new |-> CallFailed, search |-> CallFailed] : f \in SeqUpTo(PartnerPosts, MaxFeed)}

\* The calls of check: a supplied feed without search, a supplied feed of at
\* most one post with search, or no feed (check fetches hot and new).
CheckCalls ==
    FeedCalls
    \cup {[supplied |-> TRUE, feed_posts |-> f, use_search |-> TRUE, hot |-> CallFailed,
           new |-> CallFailed, search |-> data] :
             f \in SeqUpTo(PartnerPosts, 1), data \in SearchResponses}
    \cup {[supplied |-> FALSE, feed_posts |-> <<>>, use_search |-> FALSE, hot |-> h, new |-> n,
           search |-> CallFailed] : h \in FeedResponses, n \in FeedResponses}

\* History kept (the identifiers reported so far), or left alone.
PartnerHistStep(kept) == IF kept THEN HistReported ELSE UNCHANGED partners_reported

\* The PartnerMonitor methods on the partner names, check called as in calls;
\* client.search answers every name the same.
NextPartnersOn(names, calls, kept) ==
    \/ /\ \E name \in names : partner_add(name)
       /\ PartnerHistStep(kept)
       /\ UNCHANGED otherThanPartners
    \/ /\ \E name \in names : partner_remove(name)
       /\ PartnerHistStep(kept)
       /\ UNCHANGED otherThanPartners
    \/ /\ \E c \in calls :
             partner_check(c.supplied, c.feed_posts, c.use_search, c.hot, c.new,
                           [n \in DOMAIN partners_state |-> c.search])
       /\ PartnerHistStep(kept)
       /\ UNCHANGED otherThanPartners
    \/ /\ \E name \in names \cup {None}, h \in FeedResponses, n \in FeedResponses :
             partner_mark_all_seen(name, h, n)
       /\ PartnerHistStep(kept)
       /\ UNCHANGED otherThanPartners

\* PartnerMonitor on two partners.
NextPartners == NextPartnersOn(PartnerNames, CheckCalls, FALSE)

SpecPartners == Init /\ [][NextPartners]_vars

\* PartnerMonitor on one partner, with the history of what was reported.
NextPartnersHist == NextPartnersOn({"bicep"}, FeedCalls, TRUE)

SpecPartnersHist == Init /\ [][NextPartnersHist]_vars

\* The five stores constructed on missing and corrupt files and used
\* afterwards, each by one of its mutating methods.
NextLoad ==
    \/ \E content \in LoadContents : construct_cursor(content)
    \/ \E content \in LoadContents : construct_tracker(content)
    \/ \E content \in LoadContents : construct_filter(content)
    \/ \E content \in LoadContents : construct_rules(content)
    \/ \E content \in LoadContents : construct_partners(content)
    \/ /\ mark_seen(<<[isdict |-> TRUE, id |-> "p1"]>>, "hot")
       /\ UNCHANGED <<now, cursorHist, otherThanCursor>>
    \/ /\ watch("post-1", "c1")
       /\ UNCHANGED otherThanTracker
    \/ /\ block("spammer", None)
       /\ UNCHANGED otherThanFilter
    \/ /\ add("kill", "title", "SPAM", None, Nothing)
       /\ UNCHANGED <<now, otherThanRules>>
    \/ /\ partner_add("bicep")
       /\ UNCHANGED <<otherThanPartners, partnerHist>>

SpecLoad == Init /\ [][NextLoad]_vars

\* How each store reads the top-level key of its document: FeedCursor by
\* setdefault, FeedFilter and FeedRules by get with a default,
\* ConversationTracker and PartnerMonitor by subscript.
KeyAccess ==
    [cursor |-> "setdefault", filter |-> "get", rules |-> "get",
     tracker |-> "subscript", partners |-> "subscript"]

\* d[key] raises KeyError on a document without the key; setdefault and get
\* supply the empty value.
KeyRaises(store) == store \in keyless /\ KeyAccess[store] = "subscript"

\* The file of a store holds no entry.
FileEmpty(store) ==
    CASE store = "cursor" -> cursor_file = <<>>
      [] store = "filter" -> filter_file = [blocked |-> <<>>, reasons |-> <<>>]
      [] store = "rules" -> rules_file = <<>>
      [] store = "tracker" -> tracker_file = <<>>
      [] store = "partners" -> partners_file = <<>>

\* A store is constructed on a file that holds {}: json.loads returns the
\* empty dict, which becomes the document as it is.
construct_bare(store) ==
    /\ FileEmpty(store)
    /\ keyless' = keyless \cup {store}
    /\ loaded' = [op |-> "construct", store |-> store, content |-> "empty_object",
                  raised |-> FALSE]
    /\ UNCHANGED <<now, cursorVars, cursorHist, trackerVars, filterVars, rulesVars,
                   feedVars, partnerVars, partnerHist, peerVars, sessionVars>>

\* A method of a store is called: the call is recorded, and a call that got
\* past the read of the top-level key has created the key.
CalledOn(store) ==
    /\ loaded' = [op |-> "call", store |-> store,
                  content |-> IF store \in keyless THEN "empty_object" ELSE None,
                  raised |-> KeyRaises(store)]
    /\ keyless' = IF KeyRaises(store) THEN keyless ELSE keyless \ {store}
    /\ UNCHANGED <<peerVars, sessionVars>>

\* The stores constructed on files holding {} and used afterwards, each by
\* one of its mutating methods.
NextLoadBare ==
    \/ \E store \in DOMAIN KeyAccess : construct_bare(store)
    \/ /\ CalledOn("cursor")
       /\ mark_seen(<<[isdict |-> TRUE, id |-> "p1"]>>, "hot")
       /\ UNCHANGED <<now, cursorHist, trackerVars, filterVars, rulesVars, feedVars,
                      partnerVars, partnerHist>>
    \/ /\ CalledOn("filter")
       /\ block("spammer", None)
       /\ UNCHANGED <<now, cursorVars, cursorHist, trackerVars, rulesVars, feedVars,
                      partnerVars, partnerHist>>
    \/ /\ CalledOn("rules")
       /\ add("kill", "title", "SPAM", None, Nothing)
       /\ UNCHANGED <<now, cursorVars, cursorHist, trackerVars, filterVars, feedVars,
                      partnerVars, partnerHist>>
    \/ /\ CalledOn("tracker")
       /\ IF KeyRaises("tracker") THEN UNCHANGED trackerVars ELSE watch("post-1", "c1")
       /\ UNCHANGED <<now, cursorVars, cursorHist, filterVars, rulesVars, feedVars,
                      partnerVars, partnerHist>>
    \/ /\ CalledOn("partners")
       /\ IF KeyRaises("partners") THEN UNCHANGED partnerVars ELSE partner_add("bicep")
       /\ UNCHANGED <<now, cursorVars, cursorHist, trackerVars, filterVars, rulesVars,
                      feedVars, partnerHist>>

SpecLoadBare == Init /\ [][NextLoadBare]_vars

(***************************************************************************)
(* Properties of FeedCursor                                                *)
(***************************************************************************)
\* The source the last call worked on.
LastSourceName == IF cursor_last.source = None THEN "default" ELSE cursor_last.source

\* The last call was a mark_seen whose set of identifiers exceeded the cap.
LastMarkEvicted ==
    /\ cursor_last.op = "mark_seen"
    /\ cursor_last.total > MAX_SEEN_PER_SOURCE

\* C1: when mark_seen has pushed a source past the cap, exactly
\* MAX_SEEN_PER_SOURCE identifiers are retained and they are the most recently
\* inserted ones, the earliest-inserted ones being evicted.
C1_CapKeepsNewest ==
    LastMarkEvicted =>
        /\ Len(cursor_sources[LastSourceName].seen_ids) = MAX_SEEN_PER_SOURCE
        /\ Range(cursor_sources[LastSourceName].seen_ids) = Range(cursor_newest[LastSourceName])

\* C2: after any FeedCursor call, no source holds more than
\* MAX_SEEN_PER_SOURCE identifiers, in memory and in the file.
C2_SeenBounded ==
    /\ \A n \in DOMAIN cursor_sources :
           Len(cursor_sources[n].seen_ids) <= MAX_SEEN_PER_SOURCE
    /\ \A n \in DOMAIN cursor_file :
           Len(cursor_file[n].seen_ids) <= MAX_SEEN_PER_SOURCE

\* C2 witness: a mark_seen met more identifiers than the cap and the source
\* is left holding exactly the cap.
C2_Witness ==
    /\ LastMarkEvicted
    /\ Len(cursor_sources[LastSourceName].seen_ids) = MAX_SEEN_PER_SOURCE

\* The posts are post dicts that all carry an identifier.
WellFormedPosts(posts) == \A i \in 1..Len(posts) : posts[i].isdict /\ posts[i].id # None

\* C3: right after mark_seen(P, s), unseen(P, s) returns the empty list.
\* Stated for the lists the cap can hold: post dicts with identifiers, no
\* more of them than MAX_SEEN_PER_SOURCE.
C3_MarkSeenThenUnseenEmpty ==
    (/\ cursor_last.op = "mark_seen"
     /\ WellFormedPosts(cursor_last.posts)
     /\ Cardinality(MarkedIds(cursor_last.posts)) <= MAX_SEEN_PER_SOURCE)
        => UnseenResult(cursor_sources, cursor_last.posts, cursor_last.source)
               = [raised |-> FALSE, ret |-> <<>>]

\* The entry of a source, None when there is none.
EntryOf(sources, n) == IF n \in DOMAIN sources THEN sources[n] ELSE None

\* A mark_seen step leaves every other source as it was: its entry, and what
\* unseen answers for it on the marked posts.
MarkSeenFrame ==
    (cursor_last'.op = "mark_seen") =>
        LET tgt == IF cursor_last'.source = None THEN "default" ELSE cursor_last'.source
        IN  \A a \in SourceArgs :
              LET n == IF a = None THEN "default" ELSE a
              IN  n # tgt =>
                    /\ EntryOf(cursor_sources', n) = EntryOf(cursor_sources, n)
                    /\ UnseenResult(cursor_sources', cursor_last'.posts, a)
                           = UnseenResult(cursor_sources, cursor_last'.posts, a)

\* An identifier enters a source only by a mark_seen on that source that
\* names it.
SeenOnlyByOwnMark ==
    \A n \in DOMAIN cursor_sources' :
        LET before == IF n \in DOMAIN cursor_sources
                      THEN Range(cursor_sources[n].seen_ids) ELSE {}
            tgt    == IF cursor_last'.source = None THEN "default" ELSE cursor_last'.source
            marked == IF cursor_last'.op = "mark_seen" /\ n = tgt
                      THEN {cursor_last'.posts[i].id : i \in 1..Len(cursor_last'.posts)}
                      ELSE {}
        IN  Range(cursor_sources'[n].seen_ids) \subseteq before \cup marked

\* C4: mark_seen(P, s1) changes neither the seen_ids nor the unseen() result
\* of any other source, and an identifier is recognised as seen only in a
\* source it was marked in.
C4_SourcesIndependent == [][MarkSeenFrame /\ SeenOnlyByOwnMark]_vars

\* C4 witness: identifiers were marked in one source while another source
\* holds identifiers of its own and does not recognise all of the marked ones.
C4_Witness ==
    /\ cursor_last.op = "mark_seen"
    /\ \E n \in DOMAIN cursor_sources \ {LastSourceName} :
          /\ cursor_sources[n].seen_ids # <<>>
          /\ \E pid \in MarkedIds(cursor_last.posts) :
                /\ pid \in Range(cursor_sources[LastSourceName].seen_ids)
                /\ pid \notin Range(cursor_sources[n].seen_ids)

\* C22: catch_up called with a source and posts (or with posts alone, for the
\* default source) acts as mark_seen on the posts: unseen on the same posts
\* and source then returns the empty list, and last_checked of the source is
\* the time of the call.
C22_CatchUpWithPostsMarksSeen ==
    (cursor_last.op = "catch_up_posts" /\ cursor_last.posts # <<>>) =>
        LET name == SourceKey(cursor_last.source)
        IN  /\ UnseenResult(cursor_sources, cursor_last.posts, cursor_last.source).ret = <<>>
            /\ name \in DOMAIN cursor_sources
            /\ cursor_sources[name].last_checked = now

\* C23: unseen changes neither the cursor state in memory nor the file.
C23_UnseenPureRead ==
    [][cursor_last'.op = "unseen" =>
           (cursor_sources' = cursor_sources /\ cursor_file' = cursor_file)]_vars

\* What each store holds in memory is what its file holds.
CursorFlushed == cursor_file = cursor_sources

TrackerFlushed == tracker_file = tracker_watched

FilterFlushed == filter_file = [blocked |-> filter_blocked, reasons |-> filter_reasons]

RulesFlushed == rules_file = rules_rules

PartnersFlushed == partners_file = partners_state

\* C24: after any public method of any of the five stores has returned, the
\* file of the store holds the state the store has in memory, so that an
\* instance constructed on the same path observes the same state.
C24_FlushDiscipline ==
    CursorFlushed /\ TrackerFlushed /\ FilterFlushed /\ RulesFlushed /\ PartnersFlushed

\* The store holds its empty initial state as long as none of its methods
\* has been called since it was constructed.
EmptyUntilUsed(store) ==
    CASE store = "cursor"   -> cursor_last.op = "init" => cursor_sources = <<>>
      [] store = "tracker"  -> tracker_last.op = "init" => tracker_watched = <<>>
      [] store = "filter"   -> filter_last.op = "init"
                                   => (filter_blocked = <<>> /\ filter_reasons = <<>>)
      [] store = "rules"    -> rules_last.op = "init" => rules_rules = <<>>
      [] store = "partners" -> partners_last.op = "init" => partners_state = <<>>

\* C25: constructing any of the five stores on a path whose file is missing
\* or is no parseable JSON raises nothing and gives the empty initial state,
\* from which the following operations proceed.
C25_MissingOrCorruptLoadsEmpty ==
    loaded.op = "construct" => (~loaded.raised /\ EmptyUntilUsed(loaded.store))

(***************************************************************************)
(* Properties of ConversationTracker                                       *)
(***************************************************************************)
\* The comments of a tree at every depth, parents before their replies.
RECURSIVE FlattenTree(_)
FlattenTree(comments) ==
    IF comments = <<>> THEN <<>>
    ELSE <<Head(comments)>> \o FlattenTree(Head(comments).replies)
             \o FlattenTree(Tail(comments))

\* The comment tree a successful response carries.
TreeOf(data) == data.top \o data.nested

TreeIds(data) == {c.id : c \in Range(FlattenTree(TreeOf(data)))}

\* The posts the last check_replies fetched successfully.
LastFetchedOk ==
    IF tracker_last.op # "check_replies" THEN {}
    ELSE {q \in DOMAIN tracker_last.fetched : tracker_last.fetched[q].ok}

\* The new_comments the last call returned for post q (empty: no entry).
ReportedFor(q) ==
    LET hits == {i \in 1..Len(tracker_last.ret) : tracker_last.ret[i].post_id = q}
    IN  IF hits = {} THEN <<>> ELSE tracker_last.ret[CHOOSE i \in hits : TRUE].new_comments

EntriesFor(q) ==
    Cardinality({i \in 1..Len(tracker_last.ret) : tracker_last.ret[i].post_id = q})

\* C7: for every watched post whose fetch succeeds, check_replies reports
\* exactly the comments, at any depth, whose identifier is neither in the
\* prior seen_comment_ids nor in my_comment_ids (one entry, or none when
\* nothing is new).
C7_RepliesExactlyNewNotOwn ==
    \A q \in LastFetchedOk :
        LET prior    == tracker_last.before[q]
            known    == Range(prior.seen_comment_ids) \cup Range(prior.my_comment_ids)
            tree     == FlattenTree(TreeOf(tracker_last.fetched[q]))
            expected == SelectList(tree, {c \in Range(tree) : c.id \notin known})
        IN  /\ ReportedFor(q) = expected
            /\ EntriesFor(q) = (IF expected = <<>> THEN 0 ELSE 1)

\* C7 witness: the first check of a freshly watched post (nothing seen yet)
\* whose tree holds an own comment with a reply under it: the reply is
\* reported, the own comment is not.
C7_Witness ==
    \E q \in LastFetchedOk :
        /\ tracker_last.before[q].seen_comment_ids = <<>>
        /\ \E c \in Range(FlattenTree(TreeOf(tracker_last.fetched[q]))) :
              /\ c.id \in Range(tracker_last.before[q].my_comment_ids)
              /\ c.replies # <<>>
              /\ c \notin Range(ReportedFor(q))
              /\ c.replies[1] \in Range(ReportedFor(q))

\* C8: while a post stays watched, an identifier in its seen_comment_ids
\* stays there over every later call.
C8_SeenMonotonic ==
    [][\A q \in DOMAIN tracker_watched \cap DOMAIN tracker_watched' :
          Range(tracker_watched[q].seen_comment_ids)
              \subseteq Range(tracker_watched'[q].seen_comment_ids)]_vars

\* C9: after a check_replies that fetched a watched post, its
\* seen_comment_ids is the union of the identifiers of the fetched tree, the
\* seen_comment_ids held before the call and my_comment_ids.
C9_SeenIsUnionWithPrior ==
    \A q \in LastFetchedOk :
        Range(tracker_watched[q].seen_comment_ids)
            = TreeIds(tracker_last.fetched[q])
                  \cup Range(tracker_last.before[q].seen_comment_ids)
                  \cup Range(tracker_last.before[q].my_comment_ids)

\* C10: the first check_replies of a post watched without own comment reports
\* every comment of the tree and leaves seen_comment_ids equal to the tree's
\* identifiers; a check_replies answered the same tree as the check_replies
\* before it reports nothing for the post.
C10_RepeatCheckSilent ==
    \A q \in LastFetchedOk :
        /\ (/\ tracker_last.before[q].seen_comment_ids = <<>>
            /\ tracker_last.before[q].my_comment_ids = <<>>)
               => /\ ReportedFor(q) = FlattenTree(TreeOf(tracker_last.fetched[q]))
                  /\ Range(tracker_watched[q].seen_comment_ids)
                         = TreeIds(tracker_last.fetched[q])
        /\ q \in tracker_last.repeated => EntriesFor(q) = 0

\* C10 witness: a second check_replies on the unchanged tree of MaxTree
\* comments of a post watched without own comment returns the empty list.
C10_Witness ==
    \E q \in LastFetchedOk :
        /\ q \in tracker_last.repeated
        /\ tracker_watched[q].my_comment_ids = <<>>
        /\ Cardinality(TreeIds(tracker_last.fetched[q])) = MaxTree
        /\ Range(tracker_watched[q].seen_comment_ids) = TreeIds(tracker_last.fetched[q])
        /\ tracker_last.ret = <<>>

\* The posts for which the last check_replies returned an entry.
ReportedPosts == {tracker_last.ret[i].post_id : i \in 1..Len(tracker_last.ret)}

\* C26: when the fetch of a watched post fails during check_replies, the post
\* gets no result entry and its entry stays as it was; every other watched
\* post is diffed (it is reported iff a fetched comment is neither seen nor
\* the caller's own) and updated (the fetched identifiers are seen); the call
\* returns and the state is in the file.
C26_FetchFailureIsolated ==
    tracker_last.op = "check_replies" =>
        /\ tracker_file = tracker_watched
        /\ DOMAIN tracker_watched = DOMAIN tracker_last.before
        /\ \A q \in DOMAIN tracker_last.before :
              LET data   == tracker_last.fetched[q]
                  old    == tracker_last.before[q]
                  ids    == Range(_collect_comment_ids(CheckedComments(data)))
                  known  == Range(old.seen_comment_ids) \cup Range(old.my_comment_ids)
              IN  IF ~data.ok
                  THEN q \notin ReportedPosts /\ tracker_watched[q] = old
                  ELSE /\ q \in ReportedPosts <=> ids \ known # {}
                       /\ ids \subseteq Range(tracker_watched[q].seen_comment_ids)
                       /\ tracker_watched[q].my_comment_ids = old.my_comment_ids

\* C26 witness: two posts are watched; the fetch of one, which has seen
\* comments, fails, and the other is reported with a new comment.
C26_Witness ==
    /\ tracker_last.op = "check_replies"
    /\ \E q, r \in DOMAIN tracker_last.before :
          /\ ~tracker_last.fetched[q].ok
          /\ tracker_last.before[q].seen_comment_ids # <<>>
          /\ tracker_watched[q] = tracker_last.before[q]
          /\ tracker_last.fetched[r].ok
          /\ ReportedPosts = {r}
          /\ tracker_last.before[r].seen_comment_ids # tracker_watched[r].seen_comment_ids

\* A mark_all_seen step: on a watched post whose fetch succeeds every comment
\* identifier of the fetched tree is seen afterwards; on an unwatched post or
\* a failed fetch the state stays as it was.
MarkAllSeenStep ==
    tracker_last'.op = "mark_all_seen" =>
        IF DOMAIN tracker_last'.fetched = {}
        THEN tracker_watched' = tracker_watched /\ tracker_file' = tracker_file
        ELSE LET p    == tracker_last'.post
                 tree == CheckedComments(tracker_last'.fetched[p])
             IN  /\ Range(_collect_comment_ids(tree))
                        \subseteq Range(tracker_watched'[p].seen_comment_ids)
                 /\ tracker_last'.ret = <<>>

\* A check_replies step right after a mark_all_seen of post p, client.post
\* answering the same tree for p: nothing is reported for p.
CheckAfterMarkAllSeenStep ==
    (/\ tracker_last.op = "mark_all_seen"
     /\ DOMAIN tracker_last.fetched # {}
     /\ tracker_last'.op = "check_replies"
     /\ tracker_last'.fetched[tracker_last.post] = tracker_last.fetched[tracker_last.post])
        => \A i \in 1..Len(tracker_last'.ret) : tracker_last'.ret[i].post_id # tracker_last.post

\* C27: mark_all_seen(p) on a watched post records every comment identifier
\* of the fetched tree as seen and reports nothing, so that a check_replies
\* right after it against the same tree reports no new comment for p; on an
\* unwatched post or a failed fetch it leaves the state unchanged.
C27_MarkAllSeenSilences == [][MarkAllSeenStep /\ CheckAfterMarkAllSeenStep]_vars

\* lst has no element twice.
NoDuplicates(lst) == \A i, j \in 1..Len(lst) : lst[i] = lst[j] => i = j

\* For a post watched before and after a step: the own-comment list of
\* before is the beginning of the list of after, which has no duplicates;
\* and a watch call on the post leaves its seen_comment_ids.
OwnCommentsStep ==
    \A p \in DOMAIN tracker_watched \cap DOMAIN tracker_watched' :
        LET old == tracker_watched[p].my_comment_ids
            new == tracker_watched'[p].my_comment_ids
        IN  /\ Len(old) <= Len(new)
            /\ SubSeq(new, 1, Len(old)) = old
            /\ NoDuplicates(new)
            /\ (tracker_last'.op = "watch" /\ tracker_last'.post = p)
                   => tracker_watched'[p].seen_comment_ids = tracker_watched[p].seen_comment_ids

\* C29: while a post stays watched its my_comment_ids never holds an
\* identifier twice, never loses one and keeps the order of first insertion,
\* and watch on an already watched post leaves its seen_comment_ids.
C29_OwnCommentsAppendOnly == [][OwnCommentsStep]_vars

\* C29 witness: the post was watched with c2, then c1, then again with one
\* of them, after comments had been seen.
C29_Witness ==
    /\ tracker_last.op = "watch"
    /\ "post-1" \in DOMAIN tracker_watched
    /\ tracker_watched["post-1"].my_comment_ids = <<"c2", "c1">>
    /\ tracker_watched["post-1"].seen_comment_ids = <<"c2", "c1">>

(***************************************************************************)
(* Properties of FeedFilter                                                *)
(***************************************************************************)
\* The name an author value stands for: its name when it has one.
NameOfAuthor(author) ==
    IF author.kind = "none" \/ author.name = None THEN "unknown" ELSE author.name

\* How often the comment with identifier cid occurs in a tree.
Occurrences(cid, comments) ==
    Cardinality({i \in 1..Len(FlattenTree(comments)) : FlattenTree(comments)[i].id = cid})

\* C5: filter_comments returns a forest in which no comment of a blocked
\* author occurs at any depth and every comment of a non-blocked author of the
\* input occurs exactly once, the descendants of removed comments included.
C5_PrunePromoteKeepsSurvivors ==
    filter_last.op = "filter_comments" =>
        /\ \A c \in Range(FlattenTree(filter_last.ret)) :
               NameOfAuthor(c.author) \notin Range(filter_blocked)
        /\ \A c \in Range(FlattenTree(feed_comments)) :
               Occurrences(c.id, filter_last.ret)
                   = (IF NameOfAuthor(c.author) \in Range(filter_blocked) THEN 0 ELSE 1)

\* C5 witness: a blocked comment below the top level had a reply by a
\* non-blocked author; the reply is in the result, its parent is not.
C5_Witness ==
    /\ filter_last.op = "filter_comments"
    /\ \E c \in Range(FlattenTree(feed_comments)) :
          /\ c.parent_id # None
          /\ NameOfAuthor(c.author) \in Range(filter_blocked)
          /\ c.replies # <<>>
          /\ NameOfAuthor(c.replies[1].author) \notin Range(filter_blocked)
          /\ Occurrences(c.replies[1].id, filter_last.ret) = 1
          /\ Occurrences(c.id, filter_last.ret) = 0

\* A block step: the name is in the list once; blocking a name that is
\* blocked, the same call repeated in particular, leaves the list; the
\* membership of every other name stays.
BlockStep ==
    filter_last'.op = "block" =>
        LET n == filter_last'.name
        IN  /\ Cardinality({i \in 1..Len(filter_blocked') : filter_blocked'[i] = n}) = 1
            /\ n \in Range(filter_blocked) => filter_blocked' = filter_blocked
            /\ (filter_last.op = "block" /\ filter_last.name = n)
                   => filter_blocked' = filter_blocked
            /\ Range(filter_blocked') \ {n} = Range(filter_blocked) \ {n}

\* An unblock step: the name is not in the list; unblocking a name that is
\* not blocked, the same call repeated in particular, leaves the state; the
\* membership of every other name stays.
UnblockStep ==
    filter_last'.op = "unblock" =>
        LET n == filter_last'.name
        IN  /\ n \notin Range(filter_blocked')
            /\ (\/ n \notin Range(filter_blocked)
                \/ (filter_last.op = "unblock" /\ filter_last.name = n))
                   => /\ filter_blocked' = filter_blocked
                      /\ filter_reasons' = filter_reasons
                      /\ filter_file' = filter_file
            /\ Range(filter_blocked') \ {n} = Range(filter_blocked) \ {n}

\* C30: block(n) twice leaves the blocked set of block(n) once, with n in it
\* once; unblock(n) twice, or on a name that is not blocked, leaves the state
\* of unblock(n) once; neither changes the membership of another name.
C30_BlockTogglesIdempotent == [][BlockStep /\ UnblockStep]_vars

\* C30 witness: the name blocked by the last call stands before another name
\* in the list, so it was blocked when the call was made.
C30_Witness ==
    /\ filter_last.op = "block"
    /\ Len(filter_blocked) = 2
    /\ filter_blocked[1] = filter_last.name

\* C40: from the empty blocklist, after any block and unblock calls, every
\* name that has a reason is blocked, and no name is in the list twice.
C40_ReasonsOfBlockedOnly ==
    /\ DOMAIN filter_reasons \subseteq Range(filter_blocked)
    /\ NoDuplicates(filter_blocked)

\* C40 witness: a name was unblocked while another name is blocked with a
\* reason and a third without one.
C40_Witness ==
    /\ filter_last.op = "unblock"
    /\ Len(filter_blocked) = 2
    /\ Cardinality(DOMAIN filter_reasons) = 1
    /\ filter_last.name \notin Range(filter_blocked)

(***************************************************************************)
(* Properties of FeedRules                                                 *)
(***************************************************************************)
\* The rules with the given action that match post.
MatchingRules(post, action) ==
    {i \in 1..Len(rules_rules) :
        rules_rules[i].action = action /\ _rule_matches(rules_rules[i], post)}

\* C6: a post matched by at least one kill rule and at least one select rule
\* is put by apply in killed and in neither keep nor selected, in whichever
\* order the rules were added.
C6_KillPrecedence ==
    rules_last.op = "apply" =>
        \A post \in Range(feed_posts) :
            (MatchingRules(post, "kill") # {} /\ MatchingRules(post, "select") # {})
                => /\ post \in Range(rules_last.ret.killed)
                   /\ post \notin Range(rules_last.ret.keep)
                   /\ post \notin Range(rules_last.ret.selected)

\* C6 witness: apply ran on a post matched by a kill rule and by a select
\* rule added after it, and killed the post.
C6_Witness ==
    /\ rules_last.op = "apply"
    /\ \E post \in Range(feed_posts) :
          /\ \E i \in MatchingRules(post, "kill"), j \in MatchingRules(post, "select") : i < j
          /\ post \in Range(rules_last.ret.killed)

\* The identifiers of the comments of a tree that are not by a blocked
\* author, in depth-first order.
SurvivorIds(comments) ==
    LET flat == FlattenTree(comments)
        kept == SelectList(flat, {c \in Range(flat) :
                                     NameOfAuthor(c.author) \notin Range(filter_blocked)})
    IN  [i \in 1..Len(kept) |-> kept[i].id]

\* The identifiers of the comments of a tree in depth-first order.
IdsInOrder(comments) ==
    [i \in 1..Len(FlattenTree(comments)) |-> FlattenTree(comments)[i].id]

\* C17: the replies of a dropped comment take its place: the depth-first
\* order of the comments in the result is the depth-first order of the
\* surviving comments in the input, at the top level and below every comment
\* that is kept.
C17_PromotionKeepsOrder ==
    filter_last.op = "filter_comments" =>
        /\ IdsInOrder(filter_last.ret) = SurvivorIds(feed_comments)
        /\ \A o \in Range(FlattenTree(filter_last.ret)) :
               \A c \in Range(FlattenTree(feed_comments)) :
                   c.id = o.id => IdsInOrder(o.replies) = SurvivorIds(c.replies)

\* C17 witness: the second of two top-level comments is dropped and its reply
\* stands in its place, after the first.
C17_Witness ==
    /\ filter_last.op = "filter_comments"
    /\ Len(feed_comments) = 2
    /\ NameOfAuthor(feed_comments[1].author) \notin Range(filter_blocked)
    /\ NameOfAuthor(feed_comments[2].author) \in Range(filter_blocked)
    /\ Len(feed_comments[2].replies) = 1
    /\ filter_last.ret = <<feed_comments[1], feed_comments[2].replies[1]>>

\* C16: filter_posts returns exactly the posts of its input whose author
\* name (of a bare string or of an object with a name) is not blocked, in
\* their order, and leaves the input list as it was.
C16_FilterPostsSubsequence ==
    [][filter_last'.op = "filter_posts" =>
          /\ filter_last'.ret
                = SelectList(feed_posts, {p \in Range(feed_posts) :
                                NameOfAuthor(p.author) \notin Range(filter_blocked)})
          /\ feed_posts' = feed_posts]_vars

\* C16 witness: of three posts the second, by an author given as an object
\* with a blocked name, is dropped; the first and the third are returned.
C16_Witness ==
    /\ filter_last.op = "filter_posts"
    /\ Len(feed_posts) = 3
    /\ feed_posts[2].author.kind = "dict"
    /\ NameOfAuthor(feed_posts[2].author) \in Range(filter_blocked)
    /\ filter_last.ret = <<feed_posts[1], feed_posts[3]>>

(***************************************************************************)
(* Properties of PartnerMonitor                                            *)
(***************************************************************************)
\* The identifiers of the posts of partner n in a feed.
FeedIdsOf(n, feed) ==
    {feed[i].id : i \in {j \in 1..Len(feed) : _author_name(feed[j].author) = n}} \ {None}

\* C11: while a partner stays monitored its seen_post_ids never loses an
\* identifier, every check adds all identifiers found for the partner in the
\* feed, and no check reports an identifier an earlier check reported for it.
C11_PartnerPostsNeverReReported ==
    [][\A n \in DOMAIN partners_state \cap DOMAIN partners_state' :
          /\ Range(partners_state[n].seen_post_ids)
                 \subseteq Range(partners_state'[n].seen_post_ids)
          /\ partners_last'.op = "check"
                 => FeedIdsOf(n, partners_last'.feed)
                        \subseteq Range(partners_state'[n].seen_post_ids)
          /\ ReportedNow(partners_last', n) \cap partners_reported[n] = {}]_vars

\* C11 witness: a check whose feed holds a post of bicep that an earlier
\* check reported, and nothing is reported.
C11_Witness ==
    /\ partners_last.op = "check"
    /\ partners_last.ret = <<>>
    /\ "bicep" \in DOMAIN partners_state
    /\ FeedIdsOf("bicep", partners_last.feed) \cap partners_reported["bicep"] # {}

\* The result entries of the last check for partner n.
PartnerEntries(n) ==
    {i \in 1..Len(partners_last.ret) : partners_last.ret[i].partner = n}

\* C12 as stated: check returns one entry for exactly the monitored partners
\* with a post under their name in the feed whose identifier is not in
\* seen_post_ids, the entry's new posts being exactly those posts.
C12_EntriesForNewFeedPosts ==
    partners_last.op = "check" =>
        /\ \A i \in 1..Len(partners_last.ret) :
               partners_last.ret[i].partner \in DOMAIN partners_last.before
        /\ \A n \in DOMAIN partners_last.before :
               LET mine  == _find_posts_by_author(n, partners_last.feed)
                   fresh == SelectList(mine, {q \in Range(mine) :
                                q.id \notin Range(partners_last.before[n].seen_post_ids)})
               IN  /\ Cardinality(PartnerEntries(n)) = (IF fresh = <<>> THEN 0 ELSE 1)
                   /\ \A i \in PartnerEntries(n) :
                          partners_last.ret[i].new_posts
                              = [k \in 1..Len(fresh) |-> summarize_post(fresh[k])]

\* The posts check looks at for partner n: the posts under that name in the
\* feed, then, with use_search, those in the search result; only posts that
\* carry an identifier.
Candidates(n) ==
    LET searched == IF partners_last.use_search /\ partners_last.search[n].ok
                    THEN (IF partners_last.search[n].posts # <<>>
                          THEN partners_last.search[n].posts
                          ELSE partners_last.search[n].found)
                    ELSE <<>>
        all == partners_last.feed \o searched
    IN  SelectList(all, {q \in Range(all) : _author_name(q.author) = n /\ q.id # None})

\* C12 amended: check returns one entry for exactly the monitored partners
\* with an identifier among their candidate posts that is not in
\* seen_post_ids; the entry holds one post for each such identifier, the last
\* candidate carrying it, in the order the identifiers first occur.
C12_EntriesForNewFoundPosts ==
    partners_last.op = "check" =>
        /\ \A i \in 1..Len(partners_last.ret) :
               partners_last.ret[i].partner \in DOMAIN partners_last.before
        /\ \A n \in DOMAIN partners_last.before :
               LET cand  == Candidates(n)
                   fresh == {q.id : q \in Range(cand)}
                                \ Range(partners_last.before[n].seen_post_ids)
                   first(pid) == CHOOSE k \in 1..Len(cand) :
                                    cand[k].id = pid /\ \A j \in 1..(k - 1) : cand[j].id # pid
                   last(pid)  == CHOOSE k \in 1..Len(cand) :
                                    cand[k].id = pid /\ \A j \in (k + 1)..Len(cand) : cand[j].id # pid
               IN  /\ Cardinality(PartnerEntries(n)) = (IF fresh = {} THEN 0 ELSE 1)
                   /\ \A i \in PartnerEntries(n) :
                          LET new_posts == partners_last.ret[i].new_posts
                          IN  /\ Len(new_posts) = Cardinality(fresh)
                              /\ \A pid \in fresh :
                                    \E k \in 1..Len(new_posts) :
                                        new_posts[k] = summarize_post(cand[last(pid)])
                              /\ \A k, m \in 1..Len(new_posts) :
                                    k < m => first(new_posts[k].id) < first(new_posts[m].id)

\* C12 witness: both partners are monitored and have a post in the feed; the
\* post of Marth was seen before, so the check returns the one entry of bicep.
C12_Witness ==
    /\ partners_last.op = "check"
    /\ DOMAIN partners_last.before = PartnerNames
    /\ FeedIdsOf("Marth", partners_last.feed) # {}
    /\ FeedIdsOf("Marth", partners_last.feed)
           \subseteq Range(partners_last.before["Marth"].seen_post_ids)
    /\ Len(partners_last.ret) = 1
    /\ partners_last.ret[1].partner = "bicep"
    /\ Len(partners_last.ret[1].new_posts) = MaxFeed - 1

\* C28: mark_all_seen called with a name leaves the seen_post_ids of every
\* other monitored partner as they were; only the call without a name
\* updates all partners.
C28_MarkAllSeenOnlyNamed ==
    (partners_last.op = "mark_all_seen" /\ partners_last.name # None) =>
        \A n \in DOMAIN partners_last.before \ {partners_last.name} :
            partners_state[n] = partners_last.before[n]

(***************************************************************************)
(* Properties of FeedRules: expiry, removal, validation                    *)
(***************************************************************************)
\* The rules of a list that are permanent or expire strictly after time t,
\* in their order.
LiveRules(rule_list, t) ==
    SelectList(rule_list, {r \in Range(rule_list) : r.expires = Nothing \/ r.expires[1] > t})

\* C13: reading rules returns, in their stored order, exactly the rules whose
\* expires is null or strictly after the time of the call, with no prune
\* call needed; the calls that prune (prune, rules, apply) leave exactly
\* these rules stored, so a permanent rule is never removed by expiry.
C13_LazyExpiry ==
    /\ rules_last.op = "rules"
           => rules_last.ret = LiveRules(rules_last.before, rules_last.at)
    /\ rules_last.op \in {"rules", "prune", "apply"}
           => rules_rules = LiveRules(rules_last.before, rules_last.at)

\* C13 witness: rules was read while the store held a rule expiring at this
\* very time followed by a permanent rule; only the permanent rule is returned.
C13_Witness ==
    /\ rules_last.op = "rules"
    /\ Len(rules_last.before) = 2
    /\ rules_last.before[1].expires = Some(rules_last.at)
    /\ rules_last.before[2].expires = Nothing
    /\ rules_last.ret = <<rules_last.before[2]>>

\* C21: when add is given a number of days, 0 included, the stored rule
\* expires at its creation time plus that many days; the rule is permanent
\* only when no number of days is given.
C21_ExpiryStamped ==
    (rules_last.op = "add" /\ ~rules_last.raised) =>
        LET rule == rules_rules[Len(rules_rules)]
        IN  /\ rules_last.days # Nothing
                => rule.expires = Some(rule.created + rules_last.days[1])
            /\ rule.expires = Nothing => rules_last.days = Nothing

\* C18: apply puts every post in exactly one of killed and keep; killed is
\* the posts some stored kill rule matches; selected is the posts not killed
\* that some select rule matches, all of them in keep; each list keeps the
\* order of the input.
C18_ApplyPartitions ==
    rules_last.op = "apply" =>
        LET hit(action) == {q \in Range(feed_posts) : MatchingRules(q, action) # {}}
        IN  /\ rules_last.ret.killed = SelectList(feed_posts, hit("kill"))
            /\ rules_last.ret.keep = SelectList(feed_posts, Range(feed_posts) \ hit("kill"))
            /\ rules_last.ret.selected
                   = SelectList(feed_posts, hit("select") \ hit("kill"))
            /\ Range(rules_last.ret.selected) \subseteq Range(rules_last.ret.keep)
            /\ \A q \in Range(feed_posts) :
                   (q \in Range(rules_last.ret.killed)) # (q \in Range(rules_last.ret.keep))

\* C18 witness: of two posts the first is killed, the second selected and
\* therefore kept.
C18_Witness ==
    /\ rules_last.op = "apply"
    /\ Len(feed_posts) = 2
    /\ rules_last.ret.killed = <<feed_posts[1]>>
    /\ rules_last.ret.keep = <<feed_posts[2]>>
    /\ rules_last.ret.selected = <<feed_posts[2]>>

\* The stored kill rules that match comment c.
KillsComment(c) ==
    \E i \in 1..Len(rules_rules) :
        rules_rules[i].action = "kill" /\ _rule_matches(rules_rules[i], c)

\* The identifiers of the comments of a tree no stored kill rule matches, in
\* depth-first order.
UnkilledIds(comments) ==
    LET flat == FlattenTree(comments)
        kept == SelectList(flat, {c \in Range(flat) : ~KillsComment(c)})
    IN  [i \in 1..Len(kept) |-> kept[i].id]

\* C19: apply_comments removes a comment iff a stored kill rule matches it
\* and puts its surviving replies in its place; the comments that stay keep
\* their author and their place; select rules remove nothing, and without
\* kill rules the tree is returned as it was.
C19_ApplyCommentsKillOnly ==
    rules_last.op = "apply_comments" =>
        /\ IdsInOrder(rules_last.ret) = UnkilledIds(feed_comments)
        /\ \A o \in Range(FlattenTree(rules_last.ret)) :
               \A c \in Range(FlattenTree(feed_comments)) :
                   c.id = o.id => /\ o.author = c.author
                                  /\ o.parent_id = c.parent_id
                                  /\ IdsInOrder(o.replies) = UnkilledIds(c.replies)
        /\ (\A i \in 1..Len(rules_rules) : rules_rules[i].action # "kill")
               => rules_last.ret = feed_comments

\* C19 witness: a kill rule matches a comment below the top level, a select
\* rule matches its reply; the comment is gone and the reply is there.
C19_Witness ==
    /\ rules_last.op = "apply_comments"
    /\ \E c \in Range(FlattenTree(feed_comments)) :
          /\ c.parent_id # None
          /\ KillsComment(c)
          /\ c.replies # <<>>
          /\ ~KillsComment(c.replies[1])
          /\ \E i \in 1..Len(rules_rules) :
                rules_rules[i].action = "select" /\ _rule_matches(rules_rules[i], c.replies[1])
          /\ Occurrences(c.id, rules_last.ret) = 0
          /\ Occurrences(c.replies[1].id, rules_last.ret) = 1

\* The stored rules of an action whose pattern matches the post's field and
\* whose submolts list, when the rule carries one, names the post's submolt.
RulesInScope(post, action) ==
    {i \in 1..Len(rules_rules) :
        /\ rules_rules[i].action = action
        /\ _match(rules_rules[i].pattern, _get_field(post, rules_rules[i].field))
        /\ rules_rules[i].submolts # None => post.submolt.name \in Range(rules_rules[i].submolts)}

\* C20: a rule that carries a submolts list kills or selects a post only if
\* the post's submolt name is in the list: every killed post is matched by a
\* kill rule, and every selected post by a select rule, that carries no list
\* or a list naming the post's submolt.
C20_ScopedRuleAffectsOnlyListed ==
    rules_last.op = "apply" =>
        /\ \A q \in Range(rules_last.ret.killed) : RulesInScope(q, "kill") # {}
        /\ \A q \in Range(rules_last.ret.selected) : RulesInScope(q, "select") # {}

\* C14: remove(i) with 0 <= i < len deletes exactly the rule at position i,
\* keeps the others in order and moves every later rule down by one; with i
\* out of range it changes nothing; it never raises.
C14_PositionalRemove ==
    rules_last.op = "remove" =>
        LET i == rules_last.arg
            b == rules_last.before
        IN  /\ ~rules_last.raised
            /\ IF 0 <= i /\ i < Len(b)
               THEN /\ Len(rules_rules) = Len(b) - 1
                    /\ \A k \in 1..Len(rules_rules) :
                           rules_rules[k] = (IF k - 1 < i THEN b[k] ELSE b[k + 1])
               ELSE rules_rules = b

\* C14 witness: remove(0) on two different rules left the second one, now at
\* position 0.
C14_Witness ==
    /\ rules_last.op = "remove"
    /\ rules_last.arg = 0
    /\ Len(rules_last.before) = 2
    /\ rules_last.before[1] # rules_last.before[2]
    /\ rules_rules = <<rules_last.before[2]>>

\* C15: add raises exactly when the action is outside {kill, select} or the
\* field outside {title, author, submolt}, and a call that raises changes
\* neither the rule list in memory nor the rules file.
C15_AddValidates ==
    [][rules_last'.op = "add" =>
          /\ rules_last'.raised
                <=> (\/ rules_last'.arg[1] \notin {"kill", "select"}
                     \/ rules_last'.arg[2] \notin {"title", "author", "submolt"})
          /\ rules_last'.raised
                => /\ rules_rules' = rules_rules
                   /\ rules_file' = rules_file]_vars

\* C15 witness: an add with a valid action and an invalid field raised while
\* a rule was stored; the rule is still there, in memory and in the file.
C15_Witness ==
    /\ rules_last.op = "add"
    /\ rules_last.raised
    /\ rules_last.arg = <<"kill", "body">>
    /\ Len(rules_rules) = 1
    /\ rules_file = rules_rules

\* The rules of a list with the given action that are permanent or expire
\* strictly after time t and match item (a post or a comment).
LiveMatches(rule_list, t, action, item) ==
    {r \in Range(LiveRules(rule_list, t)) : r.action = action /\ _rule_matches(r, item)}

\* C36: a rule whose expires is at or before the time of the call puts no
\* post in killed or selected and removes no comment: every post apply
\* kills or selects is matched by a kill or select rule still alive, every
\* comment apply_comments removes by a kill rule still alive, whether or not
\* the expired rules were pruned before the call.
C36_ExpiredRulesInert ==
    /\ rules_last.op = "apply" =>
           \A post \in Range(feed_posts) :
               /\ post \in Range(rules_last.ret.killed)
                      => LiveMatches(rules_last.before, rules_last.at, "kill", post) # {}
               /\ post \in Range(rules_last.ret.selected)
                      => LiveMatches(rules_last.before, rules_last.at, "select", post) # {}
    /\ rules_last.op = "apply_comments" =>
           \A c \in Range(FlattenTree(feed_comments)) :
               Occurrences(c.id, rules_last.ret) = 0
                   => LiveMatches(rules_last.before, rules_last.at, "kill", c) # {}

\* C36 witness: apply ran while the store still held a kill rule that
\* matches the post and expired at this very time; the post is kept.
C36_Witness ==
    /\ rules_last.op = "apply"
    /\ feed_posts # <<>>
    /\ \E r \in Range(rules_last.before) :
          /\ r.action = "kill"
          /\ r.expires = Some(rules_last.at)
          /\ _rule_matches(r, feed_posts[1])
    /\ rules_last.ret.keep = feed_posts
    /\ rules_last.ret.killed = <<>>

\* C38: remove(i) deletes the rule the rules accessor shows at index i at
\* the time of the call: the rules alive after the call are the rules alive
\* before it without the i-th of them, expired rules not yet pruned included
\* in neither count.
C38_RemoveListedIndex ==
    rules_last.op = "remove" =>
        LET listed == LiveRules(rules_last.before, rules_last.at)
            i == rules_last.arg
        IN  LiveRules(rules_rules, rules_last.at)
                = (IF 0 <= i /\ i < Len(listed) THEN Pop(listed, i) ELSE listed)

\* Every comment of the output tree out is a comment of the input tree inp
\* with the same fields, id, author and parent_id as they were, and is the
\* input comment itself unless the comments below it are no longer the same.
NodesPreserved(inp, out) ==
    \A o \in Range(FlattenTree(out)) :
        \E c \in Range(FlattenTree(inp)) :
            /\ c.id = o.id
            /\ DOMAIN o = DOMAIN c
            /\ o.author = c.author
            /\ o.parent_id = c.parent_id
            /\ [o EXCEPT !.replies = c.replies] = c
            /\ IdsInOrder(o.replies) = IdsInOrder(c.replies) => o = c

\* C35: filter_comments and apply_comments leave the tree they are given as
\* it was, and every comment of their result carries the id, author and
\* parent_id it has in the input, a promoted comment included; only replies
\* may differ, and only when the comments below changed.
C35_TreeFilteringPure ==
    [][/\ filter_last'.op = "filter_comments"
           => /\ feed_comments' = feed_comments
              /\ NodesPreserved(feed_comments, filter_last'.ret)
       /\ rules_last'.op = "apply_comments"
           => /\ feed_comments' = feed_comments
              /\ NodesPreserved(feed_comments, rules_last'.ret)]_vars

\* C35 witness: both filters have run on a top-level comment with a reply.
\* The blocklist removed the comment and promoted the reply, which still
\* names the removed comment as its parent; the kill rule removed the reply,
\* and the comment is returned with an empty replies list.
C35_Witness ==
    /\ filter_last.op = "filter_comments"
    /\ rules_last.op = "apply_comments"
    /\ Len(feed_comments) = 1
    /\ feed_comments[1].replies # <<>>
    /\ filter_last.ret = feed_comments[1].replies
    /\ filter_last.ret[1].parent_id = feed_comments[1].id
    /\ rules_last.ret = <<[feed_comments[1] EXCEPT !.replies = <<>>]>>

\* The identifiers a sources document holds for source name.
SeenIn(sources, name) ==
    IF name \in DOMAIN sources THEN Range(sources[name].seen_ids) ELSE {}

\* C31: when a second instance on the same file performs a mutating call,
\* the file afterwards holds that instance's document and nothing else: every
\* identifier in the file is one the instance held or has just marked, so
\* what the first instance wrote after the second one loaded is lost.
C31_LastWriterWins ==
    [][(peer_last' # peer_last /\ peer_last'.op = "mark_seen") =>
          /\ cursor_file' = peer_sources'
          /\ \A n \in DOMAIN cursor_file' :
                 SeenIn(cursor_file', n)
                     \subseteq SeenIn(peer_sources, n) \cup MarkedIds(peer_last'.posts)]_vars

\* C31 witness: the first instance holds an identifier that the second one
\* did not load and that the file, written last by the second one, lacks.
C31_Witness ==
    /\ peer_last.op = "mark_seen"
    /\ cursor_last.op = "mark_seen"
    /\ cursor_file = peer_sources
    /\ \E i \in SeenIn(cursor_sources, "hot") :
          /\ i \notin SeenIn(peer_last.loaded, "hot")
          /\ i \notin SeenIn(cursor_file, "hot")
    /\ SeenIn(cursor_file, "hot") # {}

\* C39: a store constructed on a file holding {} behaves as the empty
\* store: no call on it raises.
C39_EmptyObjectLoadsEmpty ==
    (loaded.op = "call" /\ loaded.content = "empty_object") => ~loaded.raised

(***************************************************************************)
(* Properties of Session                                                   *)
(***************************************************************************)
\* The last call was a start of a session constructed with the store part.
StartedWith(part) == session_last.op = "start" /\ part \in session_last.parts

\* The identifiers the last start reported as new posts of partner n.
ActivityIds(n) ==
    UNION {{q.id : q \in Range(session_last.brief.partner_activity[i].new_posts)} :
              i \in {j \in 1..Len(session_last.brief.partner_activity) :
                         session_last.brief.partner_activity[j].partner = n}}

\* C32: the partner activity of a briefing is computed over the feed as
\* fetched: every fetched post of a monitored partner whose identifier the
\* monitor had not seen is reported, also when the blocklist or a kill rule
\* removed the post from the briefing.
C32_PartnersSeeRawFeed ==
    StartedWith("partner_monitor") =>
        \A n \in DOMAIN session_last.partners :
            \A p \in Range(session_last.hot \o session_last.new) :
                (/\ NameOfAuthor(p.author) = n
                 /\ p.id \notin Range(session_last.partners[n].seen_post_ids))
                    => p.id \in ActivityIds(n)

\* C33: the briefing of a session with a cursor has an entry
\* unseen_hot_count, the number of fetched hot posts whose identifier the
\* cursor had not seen for the source hot.
C33_UnseenHotCount ==
    StartedWith("feed_cursor") =>
        /\ "unseen_hot_count" \in DOMAIN session_last.brief
        /\ session_last.brief.unseen_hot_count
               = Cardinality({i \in 1..Len(session_last.hot) :
                                 session_last.hot[i].id
                                     \notin SeenIn(session_last.seen, "hot")})

\* The blocklist or a kill rule of the last start removes post p.
DroppedPost(p) ==
    \/ NameOfAuthor(p.author) \in session_last.blocked
    \/ \E r \in Range(session_last.rules) : r.action = "kill" /\ _rule_matches(r, p)

\* The posts of a fetched list that the last start neither blocked nor
\* killed and that the cursor had not seen for source name, summarized.
FreshSurvivors(raw, name) ==
    summarize_posts(SelectList(raw, {p \in Range(raw) :
        ~DroppedPost(p) /\ p.id \notin SeenIn(session_last.seen, name)}))

\* C37: in a start the unseen lists are what survived the blocklist and the
\* kill rules and was not seen before this start, and the cursor gains only
\* identifiers of surviving posts: a post the blocklist or a rule dropped is
\* not added to the seen set of its source.
C37_FilterBeforeMark ==
    StartedWith("feed_cursor") =>
        /\ session_last.brief.unseen_hot = FreshSurvivors(session_last.hot, "hot")
        /\ session_last.brief.unseen_new = FreshSurvivors(session_last.new, "new")
        /\ \A p \in Range(session_last.hot) :
               (DroppedPost(p) /\ p.id \notin SeenIn(session_last.seen, "hot"))
                   => p.id \notin SeenIn(cursor_sources, "hot")
        /\ \A p \in Range(session_last.new) :
               (DroppedPost(p) /\ p.id \notin SeenIn(session_last.seen, "new"))
                   => p.id \notin SeenIn(cursor_sources, "new")

\* C37 witness: a start fetched a post nothing removes and a post a kill
\* rule matches, neither seen before; the first one is reported unseen and
\* is the only identifier the cursor holds for hot.
C37_Witness ==
    /\ StartedWith("feed_cursor")
    /\ session_last.blocked = {}
    /\ session_last.rules # <<>>
    /\ session_last.hot = <<SessionPosts[1], SessionPosts[2]>>
    /\ SeenIn(session_last.seen, "hot") = {}
    /\ session_last.brief.unseen_hot = <<summarize_post(SessionPosts[1])>>
    /\ session_last.brief.killed_count = 1
    /\ SeenIn(cursor_sources, "hot") = {"p1"}

\* The identifiers of the comments the last check_replies reported for q.
ReportedIdsFor(q) == {ReportedFor(q)[i].id : i \in 1..Len(ReportedFor(q))}

\* C34 as stated: a comment made through comment_and_watch is never
\* reported as new by a later check_replies.
C34_OwnNeverReported ==
    tracker_last.op = "check_replies" =>
        \A pc \in session_last.made : pc[2] \notin ReportedIdsFor(pc[1])

\* C34: after comment_and_watch the post is watched until it is unwatched,
\* whatever the response carried; a comment made through comment_and_watch
\* whose identifier the response carried is, as long as the post is not
\* unwatched, in the my_comment_ids of the watched post, and no
\* check_replies reports it.
C34_KnownOwnNeverReported ==
    /\ session_last.op = "comment_and_watch" =>
           session_last.post \in DOMAIN tracker_watched
    /\ \A pc \in session_last.known :
           /\ pc[1] \in DOMAIN tracker_watched
           /\ pc[2] \in Range(tracker_watched[pc[1]].my_comment_ids)
    /\ tracker_last.op = "check_replies" =>
           \A pc \in session_last.known : pc[2] \notin ReportedIdsFor(pc[1])

\* C34 witness: c1 was made through comment_and_watch, and a check_replies
\* fetched a tree that holds c1 and reported nothing.
C34_Witness ==
    /\ tracker_last.op = "check_replies"
    /\ <<"post-1", "c1">> \in session_last.known
    /\ tracker_last.fetched["post-1"].ok
    /\ "c1" \in TreeIds(tracker_last.fetched["post-1"])
    /\ tracker_last.ret = <<>>

====
